---- MODULE Spec2Model ----
(***************************************************************************)
(* Model of the step orchestration loop of the GUI agent:                  *)
(*   Agent.run                   (agent.py)                                *)
(*   run_agent_with_updates      (web_server.py)                           *)
(*   Tools.execute and the tools (tools.py)                                *)
(* The model client and the browser driver are external: every call to     *)
(* them either returns or raises, chosen nondeterministically.             *)
(***************************************************************************)
EXTENDS Integers, Sequences, FiniteSets, TLC

(* ------------------------------ bounds --------------------------------- *)

\* step budget handed to the Agent constructor (max_steps)
MaxSteps == 2

\* number of direct calls of Tools.execute made on one Tools object
MaxCalls == 2

\* number of pieces (prose, phrases, objects, fenced blocks) in a response
MaxPieces == 3

\* number of nodes on the page get_pruned_dom is called on
MaxNodes == 3

(* --------------------------- JSON-like values -------------------------- *)

\* a decoded JSON value, by type; v names its text
Str(s) == [t |-> "str", v |-> s, price |-> 0]
None == [t |-> "null", v |-> "", price |-> 0]
Num(s) == [t |-> "num", v |-> s, price |-> 0]
List(s) == [t |-> "list", v |-> s, price |-> 0]

\* an error text: what went wrong and the tool (or value) it names
Err(k, n) == [t |-> "str", kind |-> k, tool |-> n]

\* Python: a list or a dict cannot be a dict key (TypeError: unhashable)
Hashable(j) == j.t \in {"str", "num", "null", "bool"}

\* params of a command: absent key, null, a non-object value, or an object
\* with a set of keys; result is the value under "result" when it is a key
NoParams == [t |-> "missing", keys |-> {}, result |-> None]
NullParams == [t |-> "null", keys |-> {}, result |-> None]
StrParams == [t |-> "str", keys |-> {}, result |-> None]
Obj(ks) == [t |-> "obj", keys |-> ks, result |-> None]
ObjResult(r) == [t |-> "obj", keys |-> {"result"}, result |-> r]

\* dict.get("params", {}): the default applies only when the key is absent
GetParams(action) == IF action.params.t = "missing" THEN Obj({}) ELSE action.params

(* ------------------------------- tools --------------------------------- *)

Registered ==
  {"navigate", "click", "input", "extract", "screenshot", "get_elements",
   "scroll", "go_back", "press_key", "get_text", "wait", "wait_for_user",
   "reload", "done"}

\* keyword parameters without a default
Required(n) ==
  CASE n = "navigate" -> {"url"}
    [] n = "click" -> {"selector"}
    [] n = "input" -> {"selector", "text"}
    [] n = "extract" -> {"query"}
    [] n = "press_key" -> {"key"}
    [] n = "done" -> {"result"}
    [] OTHER -> {}

\* keyword parameters with a default
Optional(n) ==
  CASE n = "scroll" -> {"direction", "amount"}
    [] n = "wait" -> {"seconds"}
    [] n = "wait_for_user" -> {"message"}
    [] OTHER -> {}

\* tools whose browser operation can replace the page
PageChanging == {"navigate", "click", "go_back", "reload", "wait_for_user", "press_key"}

\* tools that call the driver again after the page operation, inside the
\* same try block
LateTools == {"navigate", "click", "go_back", "reload"}

\* tools whose content carries the page text
TextTools == {"extract", "get_text"}

\* what the driver does during one tool call:
\*   ok    every call returns
\*   fail  the first call raises
\*   late  the page operation returns and a later call raises
ToolOutcomes(n) ==
  IF n = "done" THEN {"ok"}
  ELSE IF n \in LateTools THEN {"ok", "fail", "late"}
  ELSE {"ok", "fail"}

ActionResult(s, c, e, d) ==
  [present |-> TRUE, success |-> s, content |-> c, error |-> e, is_done |-> d]

\* a history record that has no "result" key yet
NoResult ==
  [present |-> FALSE, success |-> FALSE, content |-> None, error |-> None, is_done |-> FALSE]

\* ToolBody with a finish tool that forgets to mark its result terminal
ToolBody_DoneNotTerminal(n, params, outcome, pg) ==
  IF n = "done"
  THEN [res |-> ActionResult(TRUE, params.result, None, FALSE), touched |-> FALSE, changed |-> FALSE]
  ELSE IF outcome = "ok"
  THEN [res |-> ActionResult(TRUE,
                  [t |-> "str", v |-> n,
                   price |-> IF n \in TextTools THEN pg ELSE 0],
                  None, FALSE),
        touched |-> n # "wait", changed |-> n \in PageChanging]
  ELSE [res |-> ActionResult(FALSE, None, Err("tool_failed", n), FALSE),
        touched |-> n # "wait",
        changed |-> outcome = "late" /\ n \in PageChanging]

\* ToolBody with every successful result marked terminal
ToolBody_SuccessTerminal(n, params, outcome, pg) ==
  IF n = "done"
  THEN [res |-> ActionResult(TRUE, params.result, None, TRUE), touched |-> FALSE, changed |-> FALSE]
  ELSE IF outcome = "ok"
  THEN [res |-> ActionResult(TRUE,
                  [t |-> "str", v |-> n,
                   price |-> IF n \in TextTools THEN pg ELSE 0],
                  None, TRUE),
        touched |-> n # "wait", changed |-> n \in PageChanging]
  ELSE [res |-> ActionResult(FALSE, None, Err("tool_failed", n), FALSE),
        touched |-> n # "wait",
        changed |-> outcome = "late" /\ n \in PageChanging]

\* the body of a registered tool, called with a well-formed keyword set
ToolBody(n, params, outcome, pg) ==
  IF n = "done"
  THEN [res |-> ActionResult(TRUE, params.result, None, TRUE), touched |-> FALSE, changed |-> FALSE]
  ELSE IF outcome = "ok"
  THEN [res |-> ActionResult(TRUE,
                  [t |-> "str", v |-> n,
                   price |-> IF n \in TextTools THEN pg ELSE 0],
                  None, FALSE),
        touched |-> n # "wait", changed |-> n \in PageChanging]
  ELSE [res |-> ActionResult(FALSE, None, Err("tool_failed", n), FALSE),
        touched |-> n # "wait",
        changed |-> outcome = "late" /\ n \in PageChanging]

ExecuteKnown(n, params, outcome, pg) ==
  IF params.t # "obj" \/ ~(Required(n) \subseteq params.keys)
       \/ ~(params.keys \subseteq (Required(n) \cup Optional(n)))
  THEN \* TypeError from the call itself, caught by execute
       [raised |-> FALSE, res |-> ActionResult(FALSE, None, Err("TypeError", n), FALSE),
        touched |-> FALSE, changed |-> FALSE]
  ELSE IF n = "done" /\ params.result.t \notin {"str", "null"}
  THEN \* ActionResult(content=...) rejects the value, caught by execute
       [raised |-> FALSE, res |-> ActionResult(FALSE, None, Err("ValidationError", n), FALSE),
        touched |-> FALSE, changed |-> FALSE]
  ELSE LET b == ToolBody(n, params, outcome, pg)
       IN [raised |-> FALSE, res |-> b.res, touched |-> b.touched, changed |-> b.changed]

\* Tools.execute(action, params)
Execute(name, params, outcome, pg) ==
  IF ~Hashable(name)
  THEN [raised |-> TRUE, res |-> NoResult, touched |-> FALSE, changed |-> FALSE]
  ELSE IF ~(name.t = "str" /\ name.v \in Registered)
  THEN [raised |-> FALSE,
        res |-> ActionResult(FALSE, None, Err("unknown_tool", name.v), FALSE),
        touched |-> FALSE, changed |-> FALSE]
  ELSE ExecuteKnown(name.v, params, outcome, pg)

(* --------------------------- model responses --------------------------- *)

\* what the structural attempts of _parse_action decode from a response:
\* nothing, an object without an action field, or a command
NoJson == [has |-> FALSE, has_action |-> FALSE, action |-> None, params |-> NoParams]
Other == [has |-> TRUE, has_action |-> FALSE, action |-> None, params |-> NoParams]
Cmd(name, params) == [has |-> TRUE, has_action |-> TRUE, action |-> name, params |-> params]

\* a response text: the object it decodes to, whether the completion
\* classifier accepts it, the part types whose keyword it contains and
\* whether it contains a selection word
Resp(text, json, explicit, kw, sel) ==
  [text |-> text, json |-> json, explicit |-> explicit, kw |-> kw, sel |-> sel]

Responses ==
  { Resp("prose", NoJson, FALSE, {}, FALSE),
    Resp("all finished", NoJson, TRUE, {}, FALSE),
    Resp("object without action", Other, FALSE, {}, FALSE),
    Resp("navigate", Cmd(Str("navigate"), Obj({"url"})), FALSE, {}, FALSE),
    Resp("click add cpu", Cmd(Str("click"), Obj({"selector"})), FALSE, {"CPU"}, TRUE),
    Resp("get_text", Cmd(Str("get_text"), NoParams), FALSE, {}, FALSE),
    Resp("get_text of the selected cpu", Cmd(Str("get_text"), NoParams), FALSE, {"CPU"}, TRUE),
    Resp("click without params", Cmd(Str("click"), NoParams), FALSE, {}, FALSE),
    Resp("navigate null params", Cmd(Str("navigate"), NullParams), FALSE, {}, FALSE),
    Resp("get_text string params", Cmd(Str("get_text"), StrParams), FALSE, {}, FALSE),
    Resp("fly", Cmd(Str("fly"), Obj({})), FALSE, {}, FALSE),
    Resp("numeric name", Cmd(Num("7"), Obj({})), FALSE, {}, FALSE),
    Resp("list name", Cmd(List("click"), Obj({})), FALSE, {}, FALSE),
    Resp("done", Cmd(Str("done"), ObjResult(Str("summary"))), FALSE, {}, FALSE),
    Resp("done without params", Cmd(Str("done"), NoParams), FALSE, {}, FALSE),
    Resp("done null params", Cmd(Str("done"), NullParams), FALSE, {}, FALSE),
    Resp("done numeric result", Cmd(Str("done"), ObjResult(Num("5"))), FALSE, {}, FALSE) }

NoResp == Resp("", NoJson, FALSE, {}, FALSE)

(* ------------------------------ the parser ----------------------------- *)

Parsed(a) == [kind |-> "action", action |-> a, error |-> ""]
ParseNull == [kind |-> "null", action |-> [action |-> None, params |-> NoParams], error |-> ""]
ParseRaise(e) == [kind |-> "raise", action |-> [action |-> None, params |-> NoParams], error |-> e]

\* Agent._validate_done_action
ValidateDoneAction(a) ==
  IF a.action # Str("done") THEN Parsed(a)
  ELSE IF GetParams(a).t # "obj" THEN ParseRaise("AttributeError")
  ELSE LET result == IF "result" \in GetParams(a).keys THEN GetParams(a).result ELSE Str("")
       IN IF result.t # "str" THEN ParseRaise("TypeError") ELSE Parsed(a)

\* ParseAction that takes any decoded object for a command
ParseAction_AnyObject(resp) ==
  IF resp.json.has
  THEN ValidateDoneAction([action |-> resp.json.action, params |-> resp.json.params])
  ELSE IF resp.explicit
  THEN Parsed([action |-> Str("done"), params |-> ObjResult(Str(resp.text))])
  ELSE ParseNull

\* Agent._parse_action
ParseAction(resp) ==
  IF resp.json.has /\ resp.json.has_action
  THEN ValidateDoneAction([action |-> resp.json.action, params |-> resp.json.params])
  ELSE IF resp.explicit
  THEN Parsed([action |-> Str("done"), params |-> ObjResult(Str(resp.text))])
  ELSE ParseNull

(* --------------------- response texts, token by token ------------------ *)

\* A response text is a sequence of tokens, each standing for a piece of
\* text: the fence (three backquotes), the tag json, white space, the JSON punctuation, a
\* JSON string (written in single quotes here), null, a number, a prose
\* word, or a phrase the completion classifier knows.  Phrases of the
\* Chinese pattern lists are written in pinyin.
Fence == "<fence>"
JsonTag == "json"
Ws == " "
Marker == "'action'"

StringTokens ==
  {"'action'", "'params'", "'result'", "'selector'", "'url'", "'r'",
   "'click'", "'navigate'", "'scroll'", "'wait'", "'done'"}

ScalarTokens == StringTokens \cup {"null", "5"}

\* the text of a JSON string
Unquote(tok) ==
  CASE tok = "'action'" -> "action"
    [] tok = "'params'" -> "params"
    [] tok = "'result'" -> "result"
    [] tok = "'selector'" -> "selector"
    [] tok = "'url'" -> "url"
    [] tok = "'click'" -> "click"
    [] tok = "'navigate'" -> "navigate"
    [] tok = "'scroll'" -> "scroll"
    [] tok = "'wait'" -> "wait"
    [] tok = "'done'" -> "done"
    [] OTHER -> "r"

MinOf(S) == CHOOSE x \in S : \A y \in S : x <= y
MaxOf(S) == CHOOSE x \in S : \A y \in S : x >= y

\* \s* from position i: the position of the first token that is not white
\* space (Len(s) + 1 at the end of the text)
SkipWs(s, i) ==
  MinOf({j \in i..(Len(s) + 1) : j = Len(s) + 1 \/ s[j] # Ws})

StripWs(s) == SelectSeq(s, LAMBDA tok : tok # Ws)

\* fence (?:json)?\s*(\{ tried at position i: where the group starts, 0
\* when the pattern does not match there
GroupStart(s, i) ==
  IF s[i] # Fence THEN 0
  ELSE LET j == IF i + 1 <= Len(s) /\ s[i + 1] = JsonTag THEN i + 2 ELSE i + 1
           k == SkipWs(s, j)
       IN IF k <= Len(s) /\ s[k] = "{" THEN k ELSE 0

\* .*?\})\s* fence for a group that starts at a: the closing braces the group
\* can end at
GroupEnds(s, a) ==
  {b \in (a + 1)..Len(s) :
     s[b] = "}" /\ LET k == SkipWs(s, b + 1) IN k <= Len(s) /\ s[k] = Fence}

\* re.search(<fence pattern>, response, re.DOTALL):
\* group 1 of the leftmost match, the shortest one from there; <<>> when
\* the pattern matches nowhere
CodeBlockMatch(s) ==
  LET starts == {i \in 1..Len(s) :
                   GroupStart(s, i) # 0 /\ GroupEnds(s, GroupStart(s, i)) # {}}
  IN IF starts = {} THEN <<>>
     ELSE LET a == GroupStart(s, MinOf(starts))
          IN SubSeq(s, a, MinOf(GroupEnds(s, a)))

\* response.find('"action"'), 0 when absent
FindMarker(s) ==
  IF \E i \in 1..Len(s) : s[i] = Marker
  THEN MinOf({i \in 1..Len(s) : s[i] = Marker}) ELSE 0

\* response.rfind('{', 0, action_pos), 0 when absent
RFindBrace(s, pos) ==
  IF \E i \in 1..(pos - 1) : s[i] = "{"
  THEN MaxOf({i \in 1..(pos - 1) : s[i] = "{"}) ELSE 0

Count(s, tok, a, b) == Cardinality({i \in a..b : s[i] = tok})

\* MatchingBrace that stops at the first closing brace, whatever the depth
MatchingBrace_FirstClose(s, start) ==
  LET ends == {e \in start..Len(s) : s[e] = "}"}
  IN IF ends = {} THEN 0 ELSE MinOf(ends)

\* the depth-counting loop from start: the position of the brace that
\* brings the depth back to 0, 0 when the text ends first
MatchingBrace(s, start) ==
  LET ends == {e \in start..Len(s) :
                 s[e] = "}" /\ Count(s, "{", start, e) = Count(s, "}", start, e)}
  IN IF ends = {} THEN 0 ELSE MinOf(ends)

\* the text the brace scan hands to json.loads, <<>> when it finds none
InlineObject(s) ==
  LET action_pos == FindMarker(s)
      start == IF action_pos = 0 THEN 0 ELSE RFindBrace(s, action_pos)
      end == IF start = 0 THEN 0 ELSE MatchingBrace(s, start)
  IN IF end = 0 THEN <<>> ELSE SubSeq(s, start, end)

RECURSIVE ValueEnd(_, _)
RECURSIVE MembersEnd(_, _)

\* json.loads on white-space-free tokens: the position after the value that
\* starts at i, 0 when there is no well-formed value
ValueEnd(s, i) ==
  IF i > Len(s) THEN 0
  ELSE IF s[i] \in ScalarTokens THEN i + 1
  ELSE IF s[i] # "{" THEN 0
  ELSE IF i + 1 <= Len(s) /\ s[i + 1] = "}" THEN i + 2
  ELSE MembersEnd(s, i + 1)

\* the position after the closing brace of the object whose next member
\* starts at i, 0 when the members are not well formed
MembersEnd(s, i) ==
  IF i + 2 > Len(s) \/ s[i] \notin StringTokens \/ s[i + 1] # ":" THEN 0
  ELSE LET e == ValueEnd(s, i + 2)
       IN IF e = 0 \/ e > Len(s) THEN 0
          ELSE IF s[e] = "}" THEN e + 1
          ELSE IF s[e] = "," THEN MembersEnd(s, e + 1)
          ELSE 0

\* json.loads succeeds on s and yields an object
Decodes(s) == s # <<>> /\ s[1] = "{" /\ ValueEnd(s, 1) = Len(s) + 1

RECURSIVE Members(_, _)
\* the members of a decoded object whose next member starts at i: key and
\* position of the value
Members(s, i) ==
  IF s[i] = "}" THEN <<>>
  ELSE LET e == ValueEnd(s, i + 2)
       IN <<[key |-> s[i], at |-> i + 2]>>
            \o (IF s[e] = "," THEN Members(s, e + 1) ELSE <<>>)

\* where the value of key is in the members (the last one wins), 0 when
\* the key is absent
ValueAt(ms, key) ==
  IF \E i \in DOMAIN ms : ms[i].key = key
  THEN ms[MaxOf({i \in DOMAIN ms : ms[i].key = key})].at ELSE 0

\* a dict: like a list it cannot be a dict key
Dict(s) == [t |-> "dict", v |-> s, price |-> 0]

\* the decoded value at position at
JsonValue(s, at) ==
  IF s[at] \in StringTokens THEN Str(Unquote(s[at]))
  ELSE IF s[at] = "null" THEN None
  ELSE IF s[at] = "5" THEN Num("5")
  ELSE Dict("object")

\* the decoded value under "params": absent, null, another value that is
\* not an object, or an object with its keys and the value under "result"
JsonParams(s, at) ==
  IF at = 0 THEN NoParams
  ELSE IF s[at] = "null" THEN NullParams
  ELSE IF s[at] # "{" THEN StrParams
  ELSE LET ms == Members(s, at + 1)
           r == ValueAt(ms, "'result'")
       IN [t |-> "obj", keys |-> {Unquote(ms[i].key) : i \in DOMAIN ms},
           result |-> IF r = 0 THEN None ELSE JsonValue(s, r)]

\* json.loads(text) followed by the test "action" in action
Decoded(s) ==
  IF ~Decodes(s) THEN NoJson
  ELSE LET ms == Members(s, 2)
       IN IF ValueAt(ms, Marker) = 0 THEN Other
          ELSE Cmd(JsonValue(s, ValueAt(ms, Marker)),
                   JsonParams(s, ValueAt(ms, "'params'")))

\* Structural with the brace scan tried before the fenced block
Structural_InlineFirst(s) ==
  LET m1 == StripWs(CodeBlockMatch(s))
      m2 == StripWs(InlineObject(s))
  IN IF Decoded(m2).has_action THEN [method |-> 2, src |-> m2, json |-> Decoded(m2)]
     ELSE IF Decoded(m1).has_action THEN [method |-> 1, src |-> m1, json |-> Decoded(m1)]
     ELSE [method |-> 0, src |-> <<>>,
           json |-> IF Decoded(m1).has \/ Decoded(m2).has THEN Other ELSE NoJson]

\* the two structural attempts of _parse_action, the fenced block first:
\* the method that yielded a command (0: neither), the text it decoded and
\* the command
Structural(s) ==
  LET m1 == StripWs(CodeBlockMatch(s))
      m2 == StripWs(InlineObject(s))
  IN IF Decoded(m1).has_action THEN [method |-> 1, src |-> m1, json |-> Decoded(m1)]
     ELSE IF Decoded(m2).has_action THEN [method |-> 2, src |-> m2, json |-> Decoded(m2)]
     ELSE [method |-> 0, src |-> <<>>,
           json |-> IF Decoded(m1).has \/ Decoded(m2).has THEN Other ELSE NoJson]

\* response.lower()
Lower(tok) ==
  CASE tok = "Task Is Fully Complete" -> "task is fully complete"
    [] tok = "Summary" -> "summary"
    [] tok = "Continue" -> "continue"
    [] OTHER -> tok

strong_completion_patterns ==
  {"renwu quanbu wancheng", "task is fully complete", "all tasks completed",
   "task execution finished", "renwu zhixing wanbi"}
weak_completion_signals == {"done", "wancheng", "finished", "completed"}
exclusion_patterns == {"xia yi bu", "jixu", "next step", "continue", "yi wancheng di"}
summary_signals == {"zongjie", "summary", "final result", "total price", "configuration"}

\* the patterns of the four lists that occur in a (lower-case) token
PatternsIn(tok) ==
  CASE tok = "task is fully complete" -> {"task is fully complete"}
    [] tok = "all tasks completed" -> {"all tasks completed", "completed"}
    [] tok = "renwu quanbu wancheng" -> {"renwu quanbu wancheng", "wancheng"}
    [] tok = "yi wancheng di yi bu" -> {"yi wancheng di", "wancheng"}
    [] tok = "jixu" -> {"jixu"}
    [] tok = "continue" -> {"continue"}
    [] tok = "next step" -> {"next step"}
    [] tok = "done" -> {"done"}
    [] tok = "'done'" -> {"done"}
    [] tok = "finished" -> {"finished"}
    [] tok = "summary" -> {"summary"}
    [] tok = "zongjie" -> {"zongjie"}
    [] OTHER -> {}

\* any(p in response_lower for p in patterns)
AnyIn(patterns, s) ==
  \E i \in DOMAIN s : PatternsIn(Lower(s[i])) \cap patterns # {}

\* IsExplicitTaskCompletion with a strong pattern that overrides the
\* exclusion patterns
IsExplicitTaskCompletion_StrongOverrides(s) ==
  LET has_strong == AnyIn(strong_completion_patterns, s)
      has_weak == AnyIn(weak_completion_signals, s)
      has_exclusion == AnyIn(exclusion_patterns, s)
      has_summary == AnyIn(summary_signals, s)
  IN IF has_strong THEN TRUE
     ELSE IF has_weak /\ has_summary /\ ~has_exclusion THEN TRUE
     ELSE FALSE

\* Agent._is_explicit_task_completion
IsExplicitTaskCompletion(s) ==
  LET has_strong == AnyIn(strong_completion_patterns, s)
      has_weak == AnyIn(weak_completion_signals, s)
      has_exclusion == AnyIn(exclusion_patterns, s)
      has_summary == AnyIn(summary_signals, s)
  IN IF has_strong /\ ~has_exclusion THEN TRUE
     ELSE IF has_weak /\ has_summary /\ ~has_exclusion THEN TRUE
     ELSE FALSE

\* the response as _parse_action sees it
TextResp(s) == Resp("response", Structural(s).json, IsExplicitTaskCompletion(s), {}, FALSE)

\* Agent._parse_action on a text
ParseActionText(s) == ParseAction(TextResp(s))

(* ---------------------------- Browser.click ---------------------------- *)

\* the locators click is called with in the model
Selectors ==
  {"[data-agent-idx='3']", "#add_cpu", "Add", "OK", "//div", "xpath=//div",
   "Choose A CPU", ".btn"}

\* the current page: the configurator host or another one
Urls == {"https://pcpartpicker.com/list/", "https://example.com/"}

\* "pcpartpicker" in current_url
IsPcPartPicker(url) == url = "https://pcpartpicker.com/list/"

\* the prefix of those tested with startswith that the locator has
Prefix(sel) ==
  CASE sel = "[data-agent-idx='3']" -> "[data-agent-idx"
    [] sel = "#add_cpu" -> "#"
    [] sel = "#go" -> "#"
    [] sel \in {"[data-testid=\"t\"]", "[data-id=\"d\"]"} -> "["
    [] sel = "//div" -> "//"
    [] sel = "xpath=//div" -> "xpath="
    [] sel = ".btn" -> "."
    [] OTHER -> ""

\* len(selector)
Length(sel) ==
  CASE sel = "[data-agent-idx='3']" -> 20
    [] sel = "#add_cpu" -> 8
    [] sel = "Add" -> 3
    [] sel = "OK" -> 2
    [] sel = "//div" -> 5
    [] sel = "xpath=//div" -> 11
    [] sel = "Choose A CPU" -> 12
    [] OTHER -> 4

\* not selector.startswith(("#", ".", "[", "/", "xpath=")) and len(selector) > 2
IsTextLike(sel) == Prefix(sel) = "" /\ Length(sel) > 2

\* selector.replace("_", " ").replace("-", " ").split()
Words(sel) ==
  CASE sel = "Add" -> <<"Add">>
    [] sel = "OK" -> <<"OK">>
    [] sel = "Choose A CPU" -> <<"Choose", "A", "CPU">>
    [] OTHER -> <<sel>>

\* len(word)
WordLength(w) == CASE w = "A" -> 1 [] w = "OK" -> 2 [] w = "Add" -> 3 [] w = "CPU" -> 3 [] OTHER -> 6

\* the words of the keyword tables that selector.lower() contains
LowerHas(sel) ==
  CASE sel = "#add_cpu" -> {"add", "cpu"}
    [] sel = "Add" -> {"add"}
    [] sel = "Choose A CPU" -> {"cpu"}
    [] OTHER -> {}

\* id_name.split("_")[-1]
IdKeyword(sel) == CASE sel = "#add_cpu" -> "cpu" [] sel = "#go" -> "go" [] OTHER -> sel

\* selector.replace("xpath=", "")
XPathOf(sel) == IF sel = "xpath=//div" THEN "//div" ELSE sel

\* a strategy is a selector text: a template and what is put into it; the
\* template "" is the text as given
Strategy(template, arg) == <<template, arg>>

\* the locator as given (the text xpath=//div is also what the XPath
\* template yields for //div)
Raw(sel) ==
  IF Prefix(sel) = "xpath=" THEN Strategy("xpath=", XPathOf(sel)) ELSE Strategy("", sel)

part_keywords ==
  << [key |-> "cpu", keywords |-> <<"Choose A CPU", "cpu", "processor">>],
     [key |-> "cooler", keywords |-> <<"Choose A CPU Cooler", "cooler", "cooling">>],
     [key |-> "motherboard", keywords |-> <<"Choose A Motherboard", "motherboard", "mobo">>],
     [key |-> "memory", keywords |-> <<"Choose Memory", "memory", "ram">>],
     [key |-> "storage", keywords |-> <<"Choose Storage", "storage", "ssd", "hdd">>],
     [key |-> "video", keywords |-> <<"Choose A Video Card", "video card", "gpu", "graphics">>],
     [key |-> "case", keywords |-> <<"Choose A Case", "case", "chassis">>],
     [key |-> "power", keywords |-> <<"Choose A Power Supply", "power supply", "psu">>] >>

RECURSIVE Concat(_)
Concat(q) == IF q = <<>> THEN <<>> ELSE Head(q) \o Concat(Tail(q))

\* the strategies added for the keywords of one part type
KeywordStrategies(keywords) ==
  Concat([i \in DOMAIN keywords |->
            << Strategy("a:has-text", keywords[i]),
               Strategy("button:has-text", keywords[i]),
               Strategy("td a:has-text", keywords[i]),
               Strategy(".td__component a:has-text", "Choose") >>])

\* for key, keywords in part_keywords.items(): the first part type one of
\* whose keywords the locator contains
PartStrategies(sel) ==
  LET hits == {i \in DOMAIN part_keywords :
                 \E k \in DOMAIN part_keywords[i].keywords :
                   part_keywords[i].keywords[k] \in LowerHas(sel)}
  IN IF hits = {} THEN <<>>
     ELSE KeywordStrategies(part_keywords[MinOf(hits)].keywords)

AddStrategies(sel) ==
  IF "add" \in LowerHas(sel)
  THEN << Strategy("button:has-text", "Add"), Strategy(".button--add", ""),
          Strategy("[class*=add]", ""), Strategy("button.btn-primary", "") >>
  ELSE <<>>

\* the list with the XPath form appended where its comment numbers it,
\* after the id-keyword strategies
Strategies_XPathInPlace(sel, url) ==
  LET idx == IF Prefix(sel) = "[data-agent-idx" THEN <<Raw(sel)>> ELSE <<>>
      textual == IF IsTextLike(sel)
                 THEN << Strategy("button:has-text", sel), Strategy("a:has-text", sel),
                         Strategy("text=", sel), Strategy("[role=button]:has-text", sel) >>
                 ELSE <<>>
      host == IF IsPcPartPicker(url) THEN PartStrategies(sel) \o AddStrategies(sel) ELSE <<>>
      byid == IF Prefix(sel) = "#"
              THEN << Strategy("[id*= i]", IdKeyword(sel)), Strategy("[class*= i]", IdKeyword(sel)),
                      Strategy("button:has-text", IdKeyword(sel)),
                      Strategy("a:has-text", IdKeyword(sel)) >>
              ELSE <<>>
      xpath == IF Prefix(sel) \in {"//", "xpath="}
               THEN <<Strategy("xpath=", XPathOf(sel))>> ELSE <<>>
      words == IF IsTextLike(sel)
               THEN Concat([i \in DOMAIN Words(sel) |->
                              IF WordLength(Words(sel)[i]) > 2
                              THEN <<Strategy("*:has-text", Words(sel)[i])>> ELSE <<>>])
               ELSE <<>>
  IN idx \o <<Raw(sel)>> \o textual \o host \o byid \o xpath \o words

\* the list strategies as built, before the duplicates are removed
Strategies(sel, url) ==
  LET idx == IF Prefix(sel) = "[data-agent-idx" THEN <<Raw(sel)>> ELSE <<>>
      textual == IF IsTextLike(sel)
                 THEN << Strategy("button:has-text", sel), Strategy("a:has-text", sel),
                         Strategy("text=", sel), Strategy("[role=button]:has-text", sel) >>
                 ELSE <<>>
      host == IF IsPcPartPicker(url) THEN PartStrategies(sel) \o AddStrategies(sel) ELSE <<>>
      byid == IF Prefix(sel) = "#"
              THEN << Strategy("[id*= i]", IdKeyword(sel)), Strategy("[class*= i]", IdKeyword(sel)),
                      Strategy("button:has-text", IdKeyword(sel)),
                      Strategy("a:has-text", IdKeyword(sel)) >>
              ELSE <<>>
      xpath == IF Prefix(sel) \in {"//", "xpath="}
               THEN <<Strategy("xpath=", XPathOf(sel))>> ELSE <<>>
      words == IF IsTextLike(sel)
               THEN Concat([i \in DOMAIN Words(sel) |->
                              IF WordLength(Words(sel)[i]) > 2
                              THEN <<Strategy("*:has-text", Words(sel)[i])>> ELSE <<>>])
               ELSE <<>>
  IN xpath \o idx \o <<Raw(sel)>> \o textual \o host \o byid \o words

\* the loop over seen: the first occurrence of every strategy, in order
Unique(q) ==
  SelectSeq([i \in DOMAIN q |-> [s |-> q[i], first |-> \A j \in 1..(i - 1) : q[j] # q[i]]],
            LAMBDA x : x.first)

UniqueStrategies(sel, url) ==
  LET u == Unique(Strategies(sel, url)) IN [i \in DOMAIN u |-> u[i].s]

(* ------------------ getBestSelector (in get_pruned_dom) ---------------- *)

\* an element of the document as getBestSelector sees it; "" is an absent
\* attribute
El(tag, id, testid, dataid, name, cls, txt, href, placeholder) ==
  [tag |-> tag, id |-> id, testid |-> testid, dataid |-> dataid, name |-> name,
   cls |-> cls, text |-> txt, href |-> href, placeholder |-> placeholder]

\* the elements a document is made of: one for each kind of selector the
\* function can produce, and a second radio button of the same group
Els ==
  { El("button", "go", "", "", "", "", "", "", ""),
    El("button", "", "t", "", "", "", "", "", ""),
    El("button", "", "", "d", "", "", "", "", ""),
    El("input", "", "", "", "size", "", "", "", ""),
    El("input", "", "", "", "size", "", "", "", "Search"),
    El("button", "", "", "", "", "btn", "", "", ""),
    El("button", "", "", "", "", "", "Add", "", ""),
    El("button", "", "", "", "", "", "Add to cart", "", ""),
    El("a", "", "", "", "", "", "", "/", ""),
    El("input", "", "", "", "", "", "", "", "Search"),
    El("button", "", "", "", "", "", "", "", ""),
    El("a", "", "", "", "", "", "", "javascript:", "") }

\* a selector text: its kind, the tag it names ("" when it names none) and
\* the value put into it
Locator(kind, tag, value) == [kind |-> kind, tag |-> tag, value |-> value]

\* text.length of the sample texts
TextLength(t) == CASE t = "" -> 0 [] t = "Add" -> 3 [] t = "Add to cart" -> 11 [] OTHER -> 1

\* whether the text t has the text v in it, as :has-text tests it
HasText(t, v) == v # "" /\ (t = v \/ (t = "Add to cart" /\ v = "Add"))

\* whether the selector matches the element at position i of the document
\* doc, whose elements are siblings: nth-of-type counts the siblings of the
\* same tag
Matches(loc, doc, i) ==
  LET el == doc[i]
  IN CASE loc.kind = "id" -> el.id = loc.value
       [] loc.kind = "data-testid" -> el.testid = loc.value
       [] loc.kind = "data-id" -> el.dataid = loc.value
       [] loc.kind = "name" -> el.name = loc.value
       [] loc.kind = "class" -> el.tag = loc.tag /\ el.cls = loc.value
       [] loc.kind = "has-text" -> el.tag = loc.tag /\ HasText(el.text, loc.value)
       [] loc.kind = "href" -> el.tag = "a" /\ el.href = loc.value
       [] loc.kind = "placeholder" -> el.tag = loc.tag /\ el.placeholder = loc.value
       [] loc.kind = "nth-of-type" ->
            /\ el.tag = loc.tag
            /\ Cardinality({j \in 1..i : doc[j].tag = el.tag}) = loc.value
       [] OTHER -> FALSE

\* document.querySelectorAll(selector)
QuerySelectorAll(loc, doc) == {i \in DOMAIN doc : Matches(loc, doc, i)}

\* getBestSelector(el, index) for the element at position i of the document
getBestSelector(doc, i, index) ==
  LET el == doc[i]
  IN IF el.id # "" THEN Locator("id", "", el.id)
     ELSE IF el.testid # "" THEN Locator("data-testid", "", el.testid)
     ELSE IF el.dataid # "" THEN Locator("data-id", "", el.dataid)
     ELSE IF el.name # "" THEN Locator("name", "", el.name)
     ELSE IF el.cls # "" /\ Cardinality(QuerySelectorAll(Locator("class", el.tag, el.cls), doc)) = 1
          THEN Locator("class", el.tag, el.cls)
     ELSE IF TextLength(el.text) > 2 THEN Locator("has-text", el.tag, el.text)
     ELSE IF el.href # "" /\ el.tag = "a" /\ el.href # "javascript:"
          THEN Locator("href", "a", el.href)
     ELSE IF el.placeholder # "" THEN Locator("placeholder", el.tag, el.placeholder)
     ELSE Locator("nth-of-type", el.tag, index + 1)

\* the text of a selector made from an id or a data attribute
LocatorText(loc) ==
  CASE loc = Locator("id", "", "go") -> "#go"
    [] loc = Locator("data-testid", "", "t") -> "[data-testid=\"t\"]"
    [] loc = Locator("data-id", "", "d") -> "[data-id=\"d\"]"
    [] OTHER -> ""

\* the element a query of the selector resolves to: the first match in
\* document order, 0 when there is none
Resolve(loc, doc) ==
  IF QuerySelectorAll(loc, doc) = {} THEN 0 ELSE MinOf(QuerySelectorAll(loc, doc))

(* ------------------------ Browser.get_pruned_dom ----------------------- *)

\* window.innerHeight and window.innerWidth of the page the script runs in
innerHeight == 600
innerWidth == 800

\* isNearViewport: nodes this far outside the viewport still qualify
buffer == 200

\* the comparator of the sort: tops this close are one row
tolerance == 20

\* the smallest width and height a node may have
min_size == 5

\* a node of the page as the script sees it: its bounding rectangle, its
\* computed style and the id and class shouldExclude looks at
Box(t, l) ==
  [top |-> t, left |-> l, width |-> 80, height |-> 15, display |-> "block",
   visibility |-> "visible", cls |-> "btn"]

\* the nodes a page is made of: rows 15 pixels apart in three columns inside
\* the viewport, a node below and a node above it within the buffer, and
\* nodes the filters of the script drop
InViewportBoxes == {Box(0, 0), Box(0, 100), Box(15, 0), Box(15, 50), Box(30, 0)}
NearViewportBoxes == {Box(700, 0), Box(-30, 0)}
FilteredBoxes ==
  {[Box(0, 0) EXCEPT !.width = 4],
   Box(1000, 0),
   [Box(15, 50) EXCEPT !.cls = "ad-banner"],
   [Box(15, 50) EXCEPT !.display = "none"],
   [Box(15, 50) EXCEPT !.visibility = "hidden"]}
Boxes == InViewportBoxes \cup NearViewportBoxes \cup FilteredBoxes

\* excludePatterns, on the ids and classes of the sample nodes
excludePatterns == {"ad-banner"}

\* shouldExclude
shouldExclude(el) == el.cls \in excludePatterns

\* isNearViewport, the rectangle's bottom and right computed from its size
isNearViewport(rect) ==
  /\ rect.top + rect.height >= 0 - buffer
  /\ rect.top <= innerHeight + buffer
  /\ rect.left + rect.width >= 0 - buffer
  /\ rect.left <= innerWidth + buffer

\* the filters of the collection loop: a node that passes is pushed
Qualifies(el) ==
  /\ ~(el.width < min_size \/ el.height < min_size)
  /\ isNearViewport(el)
  /\ ~shouldExclude(el)
  /\ el.display # "none"
  /\ el.visibility # "hidden"

\* the inViewport flag pushed with a node
inViewport(rect) == rect.top >= 0 /\ rect.top < innerHeight

Abs(x) == IF x < 0 THEN 0 - x ELSE x

\* the comparator handed to sort
Compare(a, b) ==
  IF inViewport(a) # inViewport(b) THEN (IF inViewport(a) THEN -1 ELSE 1)
  ELSE IF Abs(a.top - b.top) > tolerance THEN a.top - b.top
  ELSE a.left - b.left

\* the collection loop: the nodes the queries return, in the order they
\* return them, each taken the first time it is seen and kept when it
\* passes the filters
RECURSIVE Collect(_, _, _)
Collect(q, els, seen) ==
  IF q = <<>> THEN <<>>
  ELSE LET el == Head(q)
           rest == Collect(Tail(q), els, seen \cup {el})
       IN IF el \in seen THEN rest
          ELSE IF Qualifies(els[el]) THEN <<el>> \o rest
          ELSE rest

allElements(q, els) == Collect(q, els, {})

\* whether the comparator is a consistent comparison function on the nodes
\* of all, the condition under which Array.prototype.sort defines the order
Consistent(all, els) ==
  LET S == {els[all[i]] : i \in DOMAIN all}
  IN /\ \A a \in S : Compare(a, a) = 0
     /\ \A a, b \in S : (Compare(a, b) = 0 => Compare(b, a) = 0)
                     /\ (Compare(a, b) < 0 => Compare(b, a) > 0)
     /\ \A a, b, c \in S :
          /\ (Compare(a, b) = 0 /\ Compare(b, c) = 0) => Compare(a, c) = 0
          /\ (Compare(a, b) < 0 /\ Compare(b, c) < 0) => Compare(a, c) < 0
          /\ (Compare(a, b) > 0 /\ Compare(b, c) > 0) => Compare(a, c) > 0

Orders(all) ==
  {p \in [DOMAIN all -> DOMAIN all] : \A i, j \in DOMAIN all : p[i] = p[j] => i = j}

\* allElements.sort(comparator): with a consistent comparator the stable
\* ascending order; otherwise the order is implementation-defined and any
\* arrangement of the nodes may come out
Sorted(all, els) ==
  {[i \in DOMAIN all |-> all[p[i]]] : p \in
     {p \in Orders(all) :
        Consistent(all, els) =>
          \A i, j \in DOMAIN all :
            i < j => \/ Compare(els[all[p[i]]], els[all[p[j]]]) < 0
                     \/ /\ Compare(els[all[p[i]]], els[all[p[j]]]) = 0
                        /\ p[i] < p[j]}}

\* Slice with the element at position maxElements kept as well
Slice_Inclusive(s, n) == SubSeq(s, 1, IF n + 1 < Len(s) THEN n + 1 ELSE Len(s))

\* slice(0, maxElements)
Slice(s, n) == SubSeq(s, 1, IF n < Len(s) THEN n ELSE Len(s))

\* the descriptors pushed on result.elements for the kept nodes: idx is the
\* position in the slice, counted from 0
Elements(kept) == [i \in DOMAIN kept |-> [idx |-> i - 1, el |-> kept[i]]]

\* el.setAttribute('data-agent-idx', index) on the first k kept nodes
Stamped(old, kept, k) ==
  [n \in DOMAIN old |->
     IF \E i \in 1..k : kept[i] = n
     THEN (CHOOSE i \in 1..k : kept[i] = n) - 1
     ELSE old[n]]

(* ----------------------------- the tracker ----------------------------- *)

PartTypes ==
  {"CPU", "CPU Cooler", "Motherboard", "Memory", "Storage", "Video Card",
   "Case", "Power Supply"}

\* UpdateSelectedParts that records a part type again when it is mentioned
\* again
UpdateSelectedParts_Overwrites(sp, resp, content) ==
  LET new == {p \in PartTypes : p \in resp.kw /\ resp.sel}
  IN [p \in DOMAIN sp \cup new |->
        IF p \in new THEN [name |-> p, price |-> content.price] ELSE sp[p]]

\* Agent._update_selected_parts: a part type not yet recorded is recorded
\* when the combined text has one of its keywords and a selection word; the
\* price is read from the result content
UpdateSelectedParts(sp, resp, content) ==
  LET new == {p \in PartTypes \ DOMAIN sp : p \in resp.kw /\ resp.sel}
  IN [p \in DOMAIN sp \cup new |->
        IF p \in DOMAIN sp THEN sp[p] ELSE [name |-> p, price |-> content.price]]

(* ------------------------------- state --------------------------------- *)

VARIABLES
  mode,            \* "run": Agent.run, "ws": run_agent_with_updates
  pc,              \* position of the loop (its suspension points)
  current_step,    \* Agent.current_step
  history,         \* Agent.history, the transcript
  messages,        \* the conversation
  selected_parts,  \* Agent.selected_parts, the progress tracker
  page,            \* version of the live page
  page_info,       \* local page_info of the current tick
  response,        \* local response of the current tick
  action,          \* local action of the current tick
  ret,             \* what Agent.run returned
  events,          \* what was sent on the WebSocket
  calls,           \* number of calls made to llm.chat, to Tools.execute and
                   \* by the tools to the browser
  last_call,       \* the latest call of Tools.execute and how it ended
  appended,        \* log of the records appended to the transcript
  reply,           \* a response text handed to _parse_action
  called,          \* the method that was called on reply
  parsed,          \* what _parse_action returned or raised
  selected,        \* the object its structural attempts settled on
  is_explicit,     \* what _is_explicit_task_completion returned
  selector,        \* the locator click was called with, stripped
  current_url,     \* the URL of the page at the call
  click_pc,        \* position of the call of click
  unique_strategies, \* the strategies of the call, duplicates removed
  tried,           \* the strategies attempted so far, in order
  js_fallback,     \* whether _js_click_fallback ran and how it ended
  clicks,          \* number of clicks performed on the page
  reported,        \* the number of strategies named in the error
  nodes,           \* the nodes of the page get_pruned_dom is called on
  queried,         \* the nodes its selector queries return, in order
  max_elements,    \* the max_elements it is called with
  stamps,          \* the data-agent-idx attribute of each node
  dom_info,        \* what get_pruned_dom returned
  dom_pc,          \* position of the call of get_pruned_dom
  elems,           \* the document whose selectors are synthesized
  descriptors,     \* the descriptors of its snapshot
  requeried,       \* the element each descriptor's selector resolves to
  loc_pc,          \* position of the synthesis and the queries
  compactions,     \* number of earlier calls of get_pruned_dom on the page
  received,        \* the messages received on the WebSocket, with the replies sent
  fmt_elements,    \* the list format_elements_for_llm is called with
  max_chars,       \* the max_chars it is called with
  formatted        \* what it returned

\* the state of the orchestration loop
loop_vars ==
  <<mode, pc, current_step, history, messages, selected_parts, page,
    page_info, response, action, ret, events, calls, last_call, appended>>

\* the state of a call of the parser on its own
parse_vars == <<reply, called, parsed, selected, is_explicit>>

\* the state of a call of Browser.click
click_vars ==
  <<selector, current_url, click_pc, unique_strategies, tried, js_fallback,
    clicks, reported>>

\* the state of a call of Browser.get_pruned_dom
dom_vars == <<nodes, queried, max_elements, stamps, dom_info, dom_pc, compactions>>

\* the state of a snapshot whose selectors are queried again
loc_vars == <<elems, descriptors, requeried, loc_pc>>

\* the state of the WebSocket endpoint
ws_vars == <<received>>

\* the state of a call of format_elements_for_llm
fmt_vars == <<fmt_elements, max_chars, formatted>>

ext_vars == <<loc_vars, ws_vars, fmt_vars>>

aux_vars == <<parse_vars, click_vars, dom_vars, ext_vars>>

vars == <<loop_vars, aux_vars>>

\* an observation of the page: the version seen, the step it was made in
\* and whether that step's command had already executed
Obs(pg, step, phase) == [ok |-> TRUE, page |-> pg, step |-> step, phase |-> phase]
ObsFailed(step, phase) == [ok |-> FALSE, page |-> -1, step |-> step, phase |-> phase]
NoObs == [ok |-> FALSE, page |-> -1, step |-> 0, phase |-> "none"]

NoAction == [action |-> None, params |-> NoParams]
NoRet == [returned |-> FALSE, success |-> FALSE, error |-> "", history |-> <<>>, final_result |-> None]

SystemMsg == [role |-> "system", kind |-> "system"]
TaskMsg(state) == [role |-> "user", kind |-> "task", state |-> state]
AssistantMsg(resp) == [role |-> "assistant", kind |-> "response", text |-> resp.text]
FormatMsg == [role |-> "user", kind |-> "format"]
FailedMsg(step, err) == [role |-> "user", kind |-> "failed", step |-> step, error |-> err]
SuccessMsg(step, content, info, progress, state) ==
  [role |-> "user", kind |-> "success", step |-> step, content |-> content,
   page_info |-> info, progress |-> progress, state |-> state]

Event(type, step) == [type |-> type, step |-> step]

StepInfo(step, a, info, text, res) ==
  [step |-> step, action |-> a, page_info |-> info, llm_response |-> text, result |-> res]

NoCall ==
  [made |-> FALSE, name |-> None, params |-> NoParams, raised |-> FALSE,
   res |-> NoResult, touched |-> FALSE]

\* Agent.__init__: the state of a fresh agent
Constructed ==
  /\ current_step = 0
  /\ history = <<>>
  /\ messages = <<>>
  /\ selected_parts = [p \in {} |-> [name |-> p, price |-> 0]]
  /\ page = 0
  /\ page_info = NoObs
  /\ response = NoResp
  /\ action = NoAction
  /\ ret = NoRet
  /\ events = <<>>
  /\ calls = [llm |-> 0, exec |-> 0, browser |-> 0]
  /\ last_call = NoCall
  /\ appended = <<>>

\* no call of click
ClickIdle ==
  /\ selector = ""
  /\ current_url = ""
  /\ click_pc = "idle"
  /\ unique_strategies = <<>>
  /\ tried = <<>>
  /\ js_fallback = "not tried"
  /\ clicks = 0
  /\ reported = -1

\* a node without the data-agent-idx attribute
NoStamp == -1

NoDomInfo == [elements |-> <<>>, error |-> FALSE]

\* no call of get_pruned_dom
DomIdle ==
  /\ nodes = <<>>
  /\ queried = <<>>
  /\ max_elements = 0
  /\ stamps = <<>>
  /\ dom_info = NoDomInfo
  /\ dom_pc = "idle"
  /\ compactions = 0

\* no snapshot whose selectors are queried again
LocatorsIdle ==
  /\ elems = <<>>
  /\ descriptors = <<>>
  /\ requeried = <<>>
  /\ loc_pc = "idle"

\* nothing received on the WebSocket
EndpointIdle == received = <<>>

NotFormatted == [called |-> FALSE, length |-> 0, rendered |-> 0, omitted |-> -1]

\* no call of format_elements_for_llm
FormatIdle ==
  /\ fmt_elements = <<>>
  /\ max_chars = 0
  /\ formatted = NotFormatted

ExtIdle == LocatorsIdle /\ EndpointIdle /\ FormatIdle

\* no call of the parser on its own
ParseIdle ==
  /\ reply = <<>>
  /\ called = "none"
  /\ parsed = [kind |-> "none", action |-> [action |-> None, params |-> NoParams], error |-> ""]
  /\ selected = [method |-> 0, src |-> <<>>, json |-> NoJson]
  /\ is_explicit = FALSE

Init ==
  /\ mode \in {"run", "ws"}
  /\ pc = "init"
  /\ Constructed
  /\ ParseIdle
  /\ ClickIdle
  /\ DomIdle
  /\ ExtIdle

\* LoopPc with a loop that runs one tick too many
LoopPc_OffByOne(step) == IF step <= MaxSteps THEN "tick" ELSE "after_loop"

\* for step in range(max_steps): where control goes when a tick is over
LoopPc(step) == IF step < MaxSteps THEN "tick" ELSE "after_loop"

\* history[-1].get("result", {}).get("content") if history else None
FinalResult(h) == IF h = <<>> THEN None ELSE h[Len(h)].result.content

\* Fail with a failure return that starts a fresh transcript
Fail_DropsTranscript(e, h) ==
  /\ pc' = "returned"
  /\ IF mode = "run"
     THEN /\ ret' = [returned |-> TRUE, success |-> FALSE, error |-> e,
                     history |-> <<>>, final_result |-> None]
          /\ events' = events
     ELSE /\ events' = Append(events, Event("error", current_step))
          /\ ret' = ret

\* the except branch: Agent.run returns the failure, the WebSocket run
\* sends an error event
Fail(e, h) ==
  /\ pc' = "returned"
  /\ IF mode = "run"
     THEN /\ ret' = [returned |-> TRUE, success |-> FALSE, error |-> e,
                     history |-> h, final_result |-> None]
          /\ events' = events
     ELSE /\ events' = Append(events, Event("error", current_step))
          /\ ret' = ret

(* ------------------------------ actions -------------------------------- *)

\* browser.start() raises: in Agent.run the call is outside the try block,
\* so the exception leaves run; in the WebSocket run the outer handler
\* sends an error event
StartRaises ==
  /\ pc = "init"
  /\ pc' = IF mode = "run" THEN "raised" ELSE "returned"
  /\ events' = IF mode = "ws" THEN Append(events, Event("error", 0)) ELSE events
  /\ UNCHANGED <<aux_vars, mode, current_step, history, messages, selected_parts, page,
                 page_info, response, action, ret,
                 calls, last_call, appended>>

\* the browser starts; the conversation gets the system message and the
\* task message (Agent.run attaches the initial page state to it)
Start ==
  /\ pc = "init"
  /\ messages' = <<SystemMsg,
                   TaskMsg(IF mode = "run" THEN Obs(page, 0, "init") ELSE NoObs)>>
  /\ pc' = LoopPc(0)
  /\ UNCHANGED <<aux_vars, mode, current_step, history, selected_parts, page, page_info,
                 response, action, ret, events,
                 calls, last_call, appended>>

\* Agent.run only: _get_page_state raises while the task message is built
StartStateRaises ==
  /\ pc = "init"
  /\ mode = "run"
  /\ messages' = <<SystemMsg>>
  /\ Fail("browser", history)
  /\ UNCHANGED <<aux_vars, mode, current_step, history, selected_parts, page, page_info,
                 response, action,
                 calls, last_call, appended>>

\* head of one tick: the step counter advances and page_info is read, a
\* failure to read it being replaced by a fixed text
StepBegin ==
  /\ pc = "tick"
  /\ current_step' = current_step + 1
  /\ \E ok \in BOOLEAN :
       page_info' = IF ok THEN Obs(page, current_step + 1, "pre")
                    ELSE ObsFailed(current_step + 1, "pre")
  /\ events' = IF mode = "ws" THEN Append(events, Event("step_start", current_step + 1))
               ELSE events
  /\ pc' = "llm"
  /\ UNCHANGED <<aux_vars, mode, history, messages, selected_parts, page, response, action, ret,
                 calls, last_call, appended>>

\* llm.chat(messages) returns a response
CallLLM ==
  /\ pc = "llm"
  /\ calls' = [calls EXCEPT !.llm = @ + 1]
  /\ \E r \in Responses : response' = r
  /\ events' = IF mode = "ws" THEN Append(events, Event("llm_response", current_step))
               ELSE events
  /\ pc' = "parse"
  /\ UNCHANGED <<aux_vars, mode, current_step, history, messages, selected_parts, page,
                 page_info, action, ret,
                 last_call, appended>>

\* llm.chat(messages) raises
CallLLMRaises ==
  /\ pc = "llm"
  /\ calls' = [calls EXCEPT !.llm = @ + 1]
  /\ Fail("llm", history)
  /\ UNCHANGED <<aux_vars, mode, current_step, history, messages, selected_parts, page,
                 page_info, response, action,
                 last_call, appended>>

\* ParseNothing with the record appended before the parse result is tested
ParseNothing_Records ==
  /\ pc = "parse"
  /\ ParseAction(response).kind = "null"
  /\ history' = Append(history,
                  StepInfo(current_step, NoAction, page_info, response.text, NoResult))
  /\ messages' = messages \o <<AssistantMsg(response), FormatMsg>>
  /\ pc' = LoopPc(current_step)
  /\ UNCHANGED <<aux_vars, mode, current_step, selected_parts, page, page_info,
                 response, action, ret, events,
                 calls, last_call, appended>>

\* the response is parsed; nothing parsed: re-prompt and continue
ParseNothing ==
  /\ pc = "parse"
  /\ ParseAction(response).kind = "null"
  /\ messages' = messages \o <<AssistantMsg(response), FormatMsg>>
  /\ pc' = LoopPc(current_step)
  /\ UNCHANGED <<aux_vars, mode, current_step, history, selected_parts, page, page_info,
                 response, action, ret, events,
                 calls, last_call, appended>>

\* the parser itself raises (in the check of a finish command)
ParseRaises ==
  /\ pc = "parse"
  /\ ParseAction(response).kind = "raise"
  /\ Fail(ParseAction(response).error, history)
  /\ UNCHANGED <<aux_vars, mode, current_step, history, messages, selected_parts, page,
                 page_info, response, action,
                 calls, last_call, appended>>

\* a command is parsed; Agent.run appends its record, still without a
\* result, before the tool is awaited; the WebSocket run announces it
ParseCommand ==
  /\ pc = "parse"
  /\ ParseAction(response).kind = "action"
  /\ action' = ParseAction(response).action
  /\ IF mode = "run"
     THEN /\ history' = Append(history,
                          StepInfo(current_step, action', page_info, response.text, NoResult))
          /\ appended' = Append(appended, [step |-> current_step, action |-> action'])
          /\ events' = events
     ELSE /\ history' = history
          /\ appended' = appended
          /\ events' = Append(events, Event("action_executing", current_step))
  /\ pc' = "exec"
  /\ UNCHANGED <<aux_vars, mode, current_step, messages, selected_parts, page, page_info,
                 response, ret,
                 calls, last_call>>

\* action.get("params", {}).get("result", <default text>)
DoneResult(a) ==
  IF "result" \in GetParams(a).keys THEN GetParams(a).result ELSE Str("default result")

\* the call of Tools.execute made for a parsed command
Call(a, outcome, pg) ==
  IF a.action = Str("done")
  THEN IF GetParams(a).t # "obj"
       THEN [raised |-> TRUE, res |-> NoResult, touched |-> FALSE, changed |-> FALSE]
       ELSE Execute(Str("done"), ObjResult(DoneResult(a)), "ok", pg)
  ELSE Execute(a.action, GetParams(a), outcome, pg)

OutcomesOf(a) ==
  IF a.action.t = "str" /\ a.action.v \in Registered
  THEN ToolOutcomes(a.action.v) ELSE {"ok"}

\* Recorded with the result written as a second record of the step
Recorded_AlwaysAppends(res) ==
  Append(history, StepInfo(current_step, action, page_info, response.text, res))

\* Recorded with the result written into every record of the transcript
Recorded_FillsAll(res) ==
  IF mode = "run"
  THEN [i \in DOMAIN history |-> [history[i] EXCEPT !.result = res]]
  ELSE Append([i \in DOMAIN history |-> [history[i] EXCEPT !.result = res]],
              StepInfo(current_step, action, NoObs, "", res))

\* the result reaches the transcript: Agent.run fills in the record it has
\* appended, the WebSocket run appends a complete record
Recorded(res) ==
  IF mode = "run"
  THEN [history EXCEPT ![Len(history)].result = res]
  ELSE Append(history, StepInfo(current_step, action, NoObs, "", res))

\* the log of appended records after the result has reached the transcript
Logged ==
  IF mode = "run" THEN appended
  ELSE Append(appended, [step |-> current_step, action |-> action])

\* the name and params Tools.execute is called with
CallName(a) == IF a.action = Str("done") THEN Str("done") ELSE a.action
CallParams(a) == IF a.action = Str("done") THEN ObjResult(DoneResult(a)) ELSE GetParams(a)

\* Tools.execute is entered (building the arguments did not raise)
CallMade(a) == ~(a.action = Str("done") /\ GetParams(a).t # "obj")

CallRecord(a, x) ==
  [made |-> TRUE, name |-> CallName(a), params |-> CallParams(a),
   raised |-> x.raised, res |-> x.res, touched |-> x.touched]

Counted(x) ==
  [calls EXCEPT !.exec = @ + 1, !.browser = @ + (IF x.touched THEN 1 ELSE 0)]

\* the call raises before any tool runs
ExecRaises ==
  /\ pc = "exec"
  /\ LET x == Call(action, "ok", page)
     IN /\ x.raised
        /\ calls' = IF CallMade(action) THEN Counted(x) ELSE calls
        /\ last_call' = IF CallMade(action) THEN CallRecord(action, x) ELSE last_call
  /\ Fail("TypeError", history)
  /\ UNCHANGED <<aux_vars, mode, current_step, history, messages, selected_parts, page,
                 page_info, response, action, appended>>

\* the finish command: its record gets the result and the loop is left
ExecDone ==
  /\ pc = "exec"
  /\ action.action = Str("done")
  /\ LET x == Call(action, "ok", page)
     IN /\ ~x.raised
        /\ history' = Recorded(x.res)
        /\ calls' = Counted(x)
        /\ last_call' = CallRecord(action, x)
        /\ events' = IF mode = "ws"
                     THEN IF x.res.is_done
                          THEN events \o <<Event("step_complete", current_step),
                                           Event("task_complete", current_step)>>
                          ELSE Append(events, Event("step_complete", current_step))
                     ELSE events
        /\ pc' = IF x.res.is_done THEN "after_loop" ELSE LoopPc(current_step)
  /\ appended' = Logged
  /\ UNCHANGED <<aux_vars, mode, current_step, messages, selected_parts, page, page_info,
                 response, action, ret>>

\* ExecFailed with a failure that leaves the loop
ExecFailed_EndsRun ==
  /\ pc = "exec"
  /\ action.action # Str("done")
  /\ \E o \in OutcomesOf(action) :
       LET x == Call(action, o, page)
       IN /\ ~x.raised
          /\ ~x.res.success
          /\ history' = Recorded(x.res)
          /\ calls' = Counted(x)
          /\ last_call' = CallRecord(action, x)
          /\ page' = IF x.changed THEN page + 1 ELSE page
          /\ messages' = messages \o <<AssistantMsg(response),
                                       FailedMsg(current_step, x.res.error)>>
  /\ appended' = Logged
  /\ events' = IF mode = "ws" THEN Append(events, Event("step_complete", current_step))
               ELSE events
  /\ pc' = "after_loop"
  /\ UNCHANGED <<aux_vars, mode, current_step, selected_parts, page_info, response, action, ret>>

\* another command whose result is a failure: error feedback, next tick
ExecFailed ==
  /\ pc = "exec"
  /\ action.action # Str("done")
  /\ \E o \in OutcomesOf(action) :
       LET x == Call(action, o, page)
       IN /\ ~x.raised
          /\ ~x.res.success
          /\ history' = Recorded(x.res)
          /\ calls' = Counted(x)
          /\ last_call' = CallRecord(action, x)
          /\ page' = IF x.changed THEN page + 1 ELSE page
          /\ messages' = messages \o <<AssistantMsg(response),
                                       FailedMsg(current_step, x.res.error)>>
  /\ appended' = Logged
  /\ events' = IF mode = "ws" THEN Append(events, Event("step_complete", current_step))
               ELSE events
  /\ pc' = LoopPc(current_step)
  /\ UNCHANGED <<aux_vars, mode, current_step, selected_parts, page_info, response, action, ret>>

\* another command that succeeds: the tracker is updated; Agent.run then
\* awaits the new page state, the WebSocket run appends its feedback at once
ExecSucceeded ==
  /\ pc = "exec"
  /\ action.action # Str("done")
  /\ \E o \in OutcomesOf(action) :
       LET x == Call(action, o, page)
           sp == UpdateSelectedParts(selected_parts, response, x.res.content)
       IN /\ ~x.raised
          /\ x.res.success
          /\ history' = Recorded(x.res)
          /\ calls' = Counted(x)
          /\ last_call' = CallRecord(action, x)
          /\ page' = IF x.changed THEN page + 1 ELSE page
          /\ selected_parts' = sp
          /\ messages' =
               IF mode = "run"
               THEN Append(messages, AssistantMsg(response))
               ELSE messages \o <<AssistantMsg(response),
                                  SuccessMsg(current_step, x.res.content, page_info, sp, NoObs)>>
  /\ appended' = Logged
  /\ events' = IF mode = "ws" THEN Append(events, Event("step_complete", current_step))
               ELSE events
  /\ pc' = IF mode = "run" THEN "feedback" ELSE LoopPc(current_step)
  /\ UNCHANGED <<aux_vars, mode, current_step, page_info, response, action, ret>>

\* Feedback that keeps a window of the conversation: the system message
\* and the new feedback message
Feedback_Trims ==
  /\ pc = "feedback"
  /\ messages' = <<messages[1],
                   SuccessMsg(current_step, history[Len(history)].result.content,
                              page_info, selected_parts,
                              Obs(page, current_step, "post"))>>
  /\ pc' = LoopPc(current_step)
  /\ UNCHANGED <<aux_vars, mode, current_step, history, selected_parts, page, page_info,
                 response, action, ret, events,
                 calls, last_call, appended>>

\* Agent.run: the new page state is read and the feedback message appended
Feedback ==
  /\ pc = "feedback"
  /\ messages' = Append(messages,
                   SuccessMsg(current_step, history[Len(history)].result.content,
                              page_info, selected_parts,
                              Obs(page, current_step, "post")))
  /\ pc' = LoopPc(current_step)
  /\ UNCHANGED <<aux_vars, mode, current_step, history, selected_parts, page, page_info,
                 response, action, ret, events,
                 calls, last_call, appended>>

\* Agent.run: reading the new page state raises
FeedbackRaises ==
  /\ pc = "feedback"
  /\ Fail("browser", history)
  /\ UNCHANGED <<aux_vars, mode, current_step, history, messages, selected_parts, page,
                 page_info, response, action,
                 calls, last_call, appended>>

\* after the loop, reached by exhausting the budget and by break
AfterLoop ==
  /\ pc = "after_loop"
  /\ pc' = "returned"
  /\ IF mode = "run"
     THEN /\ ret' = [returned |-> TRUE, success |-> TRUE, error |-> "",
                     history |-> history, final_result |-> FinalResult(history)]
          /\ events' = events
     ELSE /\ events' = Append(events, Event("task_max_steps", current_step))
          /\ ret' = ret
  /\ UNCHANGED <<aux_vars, mode, current_step, history, messages, selected_parts, page,
                 page_info, response, action,
                 calls, last_call, appended>>

Next ==
  \/ StartRaises
  \/ Start
  \/ StartStateRaises
  \/ StepBegin
  \/ CallLLM
  \/ CallLLMRaises
  \/ ParseNothing
  \/ ParseRaises
  \/ ParseCommand
  \/ ExecRaises
  \/ ExecDone
  \/ ExecFailed
  \/ ExecSucceeded
  \/ Feedback
  \/ FeedbackRaises
  \/ AfterLoop

Spec == Init /\ [][Next]_vars

\* every call to the model client and the browser driver returns or raises
FairSpec == Spec /\ WF_vars(Next)

(* -------------------- Tools.execute called directly -------------------- *)

\* the action names a caller can hand to Tools.execute: the registered
\* names, unregistered strings and values that are not strings
ToolNames ==
  {Str(n) : n \in Registered \cup {"fly", ""}} \cup {Num("7"), None, List("click")}

\* the params a caller can hand to it for the name n
ToolParams(n) ==
  {Obj(Required(n)), Obj(Required(n) \cup Optional(n)), Obj({}), Obj({"bogus"}),
   NullParams, StrParams, ObjResult(Str("r")), ObjResult(Num("5")), ObjResult(None)}

NameOf(name) == IF name.t = "str" THEN name.v ELSE ""

InitTools ==
  /\ mode = "run"
  /\ pc = "tools"
  /\ Constructed
  /\ ParseIdle
  /\ ClickIdle
  /\ DomIdle
  /\ ExtIdle

\* one call of Tools.execute(action, params) on a started browser
DirectExecute ==
  /\ pc = "tools"
  /\ calls.exec < MaxCalls
  /\ \E name \in ToolNames :
       \E params \in ToolParams(NameOf(name)) :
         \E o \in OutcomesOf([action |-> name, params |-> params]) :
           LET x == Execute(name, params, o, page)
           IN /\ last_call' = [made |-> TRUE, name |-> name, params |-> params,
                               raised |-> x.raised, res |-> x.res,
                               touched |-> x.touched]
              /\ calls' = Counted(x)
              /\ page' = IF x.changed THEN page + 1 ELSE page
  /\ UNCHANGED <<aux_vars, mode, pc, current_step, history, messages, selected_parts,
                 page_info, response, action, ret, events, appended>>

NextTools == DirectExecute

SpecTools == InitTools /\ [][NextTools]_vars

(* ------------------- _parse_action applied to a text ------------------- *)

Object(name) == <<"{", Ws, Marker, ":", Ws, name, "}">>

\* a fenced block: the fence, its tag, a line break, the content, a line
\* break, the fence
Fenced(tag, content) == <<Fence>> \o tag \o <<Ws>> \o content \o <<Ws, Fence>>

\* the pieces a response is put together from: prose, phrases of the
\* completion classifier, inline objects and fenced blocks
Pieces ==
  { <<"word">>,
    <<"the", Marker, "key">>,
    <<"Task Is Fully Complete">>,
    <<"done">>,
    <<"Summary">>,
    <<"yi wancheng di yi bu">>,
    <<"jixu">>,
    <<"word", "continue", "next step">>,
    Object("'click'"),
    <<"{", "'action'", ":", "'navigate'", ",", Ws, "'params'", ":", Ws,
      "{", "'url'", ":", "'r'", "}", "}">>,
    <<"{", "'params'", ":", Ws, "{", "'selector'", ":", "'r'", "}", ",", Ws,
      "'action'", ":", "'click'", "}">>,
    <<"{", "'selector'", ":", "'action'", ",", Ws, "'action'", ":", "'wait'", "}">>,
    <<"{", "'params'", ":", "{", "}", "}">>,
    <<"{", "'action'", ":", "}">>,
    <<"{", "'action'", ":", "'done'", ",", "'params'", ":",
      "{", "'result'", ":", "'r'", "}", "}">>,
    <<"{", "'action'", ":", "'done'", ",", "'params'", ":", "null", "}">>,
    Fenced(<<JsonTag>>, Object("'scroll'")),
    Fenced(<<>>, <<"{", "'action'", ":", "}">>),
    Fenced(<<"js">>, Object("'wait'")) }

RECURSIVE Flatten(_)
Flatten(q) == IF q = <<>> THEN <<>> ELSE Head(q) \o Flatten(Tail(q))

\* the responses of up to MaxPieces pieces
Texts ==
  {Flatten(q) : q \in UNION {[1..n -> Pieces] : n \in 0..MaxPieces}}

NotParsed == [kind |-> "none", action |-> [action |-> None, params |-> NoParams], error |-> ""]
NotSelected == [method |-> 0, src |-> <<>>, json |-> NoJson]

InitParse ==
  /\ mode = "run"
  /\ pc = "parser"
  /\ Constructed
  /\ ClickIdle
  /\ DomIdle
  /\ ExtIdle
  /\ reply \in Texts
  /\ called = "none"
  /\ parsed = NotParsed
  /\ selected = NotSelected
  /\ is_explicit = FALSE

\* self._parse_action(reply); selected is what the structural attempts
\* settled on before the sanity check
ParseText ==
  /\ called = "none"
  /\ called' = "_parse_action"
  /\ parsed' = ParseActionText(reply)
  /\ selected' = Structural(reply)
  /\ UNCHANGED <<loop_vars, click_vars, dom_vars, ext_vars, reply, is_explicit>>

\* self._is_explicit_task_completion(reply)
Classify ==
  /\ called = "none"
  /\ called' = "_is_explicit_task_completion"
  /\ is_explicit' = IsExplicitTaskCompletion(reply)
  /\ UNCHANGED <<loop_vars, click_vars, dom_vars, ext_vars, reply, parsed, selected>>

NextParse == ParseText \/ Classify

SpecParse == InitParse /\ [][NextParse]_vars

(* ------------------------- one call of click --------------------------- *)

\* click(selector) is called on a page
InitClick ==
  /\ mode = "run"
  /\ pc = "browser"
  /\ Constructed
  /\ ParseIdle
  /\ DomIdle
  /\ ExtIdle
  /\ selector \in Selectors
  /\ current_url \in Urls
  /\ click_pc = "called"
  /\ unique_strategies = <<>>
  /\ tried = <<>>
  /\ js_fallback = "not tried"
  /\ clicks = 0
  /\ reported = -1

\* await self.start() raises
ClickStartRaises ==
  /\ click_pc = "called"
  /\ click_pc' = "raised start"
  /\ UNCHANGED <<loop_vars, parse_vars, dom_vars, ext_vars, selector, current_url, unique_strategies,
                 tried, js_fallback, clicks, reported>>

\* the browser is up and the list of strategies is built
ClickBuild ==
  /\ click_pc = "called"
  /\ unique_strategies' = UniqueStrategies(selector, current_url)
  /\ click_pc' = "strategies"
  /\ UNCHANGED <<loop_vars, parse_vars, dom_vars, ext_vars, selector, current_url,
                 tried, js_fallback, clicks, reported>>

\* where the loop over unique_strategies goes after a failed strategy
AfterStrategy(n) == IF n < Len(unique_strategies) THEN "strategies" ELSE "fallback"

\* StrategyClicked that goes on with the loop after the click
StrategyClicked_Continues ==
  /\ click_pc = "strategies"
  /\ tried' = Append(tried, unique_strategies[Len(tried) + 1])
  /\ clicks' = clicks + 1
  /\ click_pc' = AfterStrategy(Len(tried'))
  /\ UNCHANGED <<loop_vars, parse_vars, dom_vars, ext_vars, selector, current_url, unique_strategies,
                 js_fallback, reported>>

\* the next strategy: wait_for_selector returns a visible element, it is
\* scrolled into view and clicked, click returns
StrategyClicked ==
  /\ click_pc = "strategies"
  /\ tried' = Append(tried, unique_strategies[Len(tried) + 1])
  /\ clicks' = clicks + 1
  /\ click_pc' = "returned"
  /\ UNCHANGED <<loop_vars, parse_vars, dom_vars, ext_vars, selector, current_url, unique_strategies,
                 js_fallback, reported>>

\* StrategyFails that leaves the loop at the first failed strategy
StrategyFails_Breaks ==
  /\ click_pc = "strategies"
  /\ tried' = Append(tried, unique_strategies[Len(tried) + 1])
  /\ click_pc' = "fallback"
  /\ UNCHANGED <<loop_vars, parse_vars, dom_vars, ext_vars, selector, current_url, unique_strategies,
                 js_fallback, clicks, reported>>

\* the next strategy: wait_for_selector times out or yields nothing, or
\* scrolling or clicking raises instead of acting; the loop goes on
StrategyFails ==
  /\ click_pc = "strategies"
  /\ tried' = Append(tried, unique_strategies[Len(tried) + 1])
  /\ click_pc' = AfterStrategy(Len(tried'))
  /\ UNCHANGED <<loop_vars, parse_vars, dom_vars, ext_vars, selector, current_url, unique_strategies,
                 js_fallback, clicks, reported>>

\* _js_click_fallback finds a node and clicks it: click returns
FallbackClicked ==
  /\ click_pc = "fallback"
  /\ js_fallback' = "clicked"
  /\ clicks' = clicks + 1
  /\ click_pc' = "returned"
  /\ UNCHANGED <<loop_vars, parse_vars, dom_vars, ext_vars, selector, current_url, unique_strategies,
                 tried, reported>>

\* _js_click_fallback finds no node or its script raises: click raises the
\* error that names len(unique_strategies)
FallbackFails ==
  /\ click_pc = "fallback"
  /\ js_fallback' = "failed"
  /\ reported' = Len(unique_strategies)
  /\ click_pc' = "raised"
  /\ UNCHANGED <<loop_vars, parse_vars, dom_vars, ext_vars, selector, current_url, unique_strategies,
                 tried, clicks>>

NextClick ==
  \/ ClickStartRaises
  \/ ClickBuild
  \/ StrategyClicked
  \/ StrategyFails
  \/ FallbackClicked
  \/ FallbackFails

SpecClick == InitClick /\ [][NextClick]_vars

(* -------------------- one call of get_pruned_dom ----------------------- *)

\* the pages the call is made on: up to MaxNodes nodes, numbered in the
\* order the selector queries first return them
Pages == UNION {[1..n -> Boxes] : n \in 0..MaxNodes}

\* what the selector queries return, one after another: every node once,
\* and possibly the first node again, matched by a later selector too
Queries(els) ==
  LET ids == [i \in DOMAIN els |-> i]
  IN {ids} \cup (IF els = <<>> THEN {} ELSE {ids \o <<1>>})

\* get_pruned_dom(max_elements) is called on a page no node of which
\* carries a stamp
InitDom ==
  /\ mode = "run"
  /\ pc = "dom"
  /\ Constructed
  /\ ParseIdle
  /\ ClickIdle
  /\ ExtIdle
  /\ nodes \in Pages
  /\ queried \in Queries(nodes)
  /\ max_elements \in 0..MaxNodes
  /\ stamps = [n \in DOMAIN nodes |-> NoStamp]
  /\ dom_info = NoDomInfo
  /\ dom_pc = "called"
  /\ compactions = 0

\* page.evaluate(script, max_elements) returns what the script built
PrunedDomReturns ==
  /\ dom_pc = "called"
  /\ \E s \in Sorted(allElements(queried, nodes), nodes) :
       LET kept == Slice(s, max_elements)
       IN /\ stamps' = Stamped(stamps, kept, Len(kept))
          /\ dom_info' = [elements |-> Elements(kept), error |-> FALSE]
  /\ dom_pc' = "returned"
  /\ UNCHANGED <<loop_vars, parse_vars, click_vars, ext_vars, nodes, queried, max_elements, compactions>>

\* page.evaluate raises, before the script ran or while it was formatting
\* the kept nodes: the nodes formatted so far keep their stamps and the
\* result has no descriptors and an error entry
PrunedDomFails ==
  /\ dom_pc = "called"
  /\ \E s \in Sorted(allElements(queried, nodes), nodes) :
       LET kept == Slice(s, max_elements)
       IN \E k \in 0..Len(kept) : stamps' = Stamped(stamps, kept, k)
  /\ dom_info' = [elements |-> <<>>, error |-> TRUE]
  /\ dom_pc' = "returned"
  /\ UNCHANGED <<loop_vars, parse_vars, click_vars, ext_vars, nodes, queried, max_elements, compactions>>

NextDom == PrunedDomReturns \/ PrunedDomFails

SpecDom == InitDom /\ [][NextDom]_vars

(* ------------- get_pruned_dom called again on the same page ------------ *)

\* the most calls of get_pruned_dom that follow the first one
MaxCompactions == 2

\* the default amount of Browser.scroll
amount == 500

\* the nodes of a page that can be scrolled: two rows at its top, a node
\* below the viewport within the buffer and a node further down
ScrollBoxes == {Box(0, 0), Box(15, 0), Box(700, 0), Box(1000, 0)}

\* how far window.scrollBy(0, amount) moves a page that was not scrolled
\* before: by amount, or as far as the document reaches below the viewport
ScrollBy(els) ==
  LET bottoms == {els[n].top + els[n].height : n \in DOMAIN els}
      below == MaxOf(bottoms \cup {innerHeight}) - innerHeight
  IN IF below < amount THEN below ELSE amount

\* the first call, on a page no node of which carries a stamp
InitStamps ==
  /\ mode = "run"
  /\ pc = "dom"
  /\ Constructed
  /\ ParseIdle
  /\ ClickIdle
  /\ ExtIdle
  /\ nodes \in UNION {[1..n -> ScrollBoxes] : n \in 1..MaxNodes}
  /\ queried = [i \in DOMAIN nodes |-> i]
  /\ max_elements \in 1..MaxNodes
  /\ stamps = [n \in DOMAIN nodes |-> NoStamp]
  /\ dom_info = NoDomInfo
  /\ dom_pc = "called"
  /\ compactions = 0

\* Browser.scroll("down") on the page as loaded: every rectangle moves up
ScrollDown ==
  /\ dom_pc = "returned"
  /\ compactions = 0
  /\ nodes' = [n \in DOMAIN nodes |-> [nodes[n] EXCEPT !.top = @ - ScrollBy(nodes)]]
  /\ dom_pc' = "scrolled"
  /\ UNCHANGED <<loop_vars, parse_vars, click_vars, ext_vars, queried,
                 max_elements, stamps, dom_info, compactions>>

\* the next step of the agent calls get_pruned_dom again with the same
\* max_elements, on the same document: the script runs on the nodes as
\* they are, stamps included
PrunedDomAgain ==
  /\ dom_pc \in {"returned", "scrolled"}
  /\ compactions < MaxCompactions
  /\ compactions' = compactions + 1
  /\ dom_pc' = "called"
  /\ UNCHANGED <<loop_vars, parse_vars, click_vars, ext_vars, nodes, queried,
                 max_elements, stamps, dom_info>>

NextStamps == PrunedDomReturns \/ PrunedDomFails \/ ScrollDown \/ PrunedDomAgain

SpecStamps == InitStamps /\ [][NextStamps]_vars

(* ------------- the selectors of a snapshot, queried again -------------- *)

\* the documents: up to MaxNodes elements, siblings in document order, all
\* of them kept by the snapshot in that order
Documents == UNION {[1..n -> Els] : n \in 1..MaxNodes}

\* get_pruned_dom is called on a document
InitLocators ==
  /\ mode = "run"
  /\ pc = "locators"
  /\ Constructed
  /\ ParseIdle
  /\ ClickIdle
  /\ DomIdle
  /\ EndpointIdle
  /\ FormatIdle
  /\ elems \in Documents
  /\ descriptors = <<>>
  /\ requeried = <<>>
  /\ loc_pc = "called"

\* the script formats the kept elements: every descriptor gets its idx and
\* the selector getBestSelector synthesizes for it
Describe ==
  /\ loc_pc = "called"
  /\ descriptors' = [i \in DOMAIN elems |->
                       [idx |-> i - 1, el |-> i, selector |-> getBestSelector(elems, i, i - 1)]]
  /\ loc_pc' = "snapshot"
  /\ UNCHANGED <<loop_vars, parse_vars, click_vars, dom_vars, ws_vars, fmt_vars, elems, requeried>>

\* the selector of every descriptor is queried on the unchanged document
Requery ==
  /\ loc_pc = "snapshot"
  /\ requeried' = [i \in DOMAIN descriptors |-> Resolve(descriptors[i].selector, elems)]
  /\ loc_pc' = "requeried"
  /\ UNCHANGED <<loop_vars, parse_vars, click_vars, dom_vars, ws_vars, fmt_vars, elems, descriptors>>

NextLocators == Describe \/ Requery

SpecLocators == InitLocators /\ [][NextLocators]_vars

(* --------------- Agent.run called on an Agent used before -------------- *)

\* the record a one-step run leaves in the transcript for the response r
PreviousRecord(r, outcome) ==
  LET a == ParseAction(r).action
  IN StepInfo(1, a, Obs(0, 1, "pre"), r.text, Call(a, outcome, 0).res)

\* what an Agent holds when run is called on it: nothing on a fresh Agent,
\* and after an earlier one-step run the transcript, the tracker and the
\* page that run left (a finish command; a click that recorded the CPU)
UsedAgents ==
  LET done == CHOOSE r \in Responses : r.text = "done"
      click == CHOOSE r \in Responses : r.text = "click add cpu"
      content == Call(ParseAction(click).action, "ok", 0).res.content
  IN { [history |-> <<>>, selected_parts |-> [p \in {} |-> [name |-> p, price |-> 0]], page |-> 0],
       [history |-> <<PreviousRecord(done, "ok")>>,
        selected_parts |-> [p \in {} |-> [name |-> p, price |-> 0]], page |-> 0],
       [history |-> <<PreviousRecord(click, "ok")>>,
        selected_parts |-> UpdateSelectedParts([p \in {} |-> [name |-> p, price |-> 0]],
                                               click, content),
        page |-> 1] }

\* Agent.run is called: the fields __init__ set keep what the earlier run
\* left in them, the locals of run are new
InitRerun ==
  /\ mode = "run"
  /\ pc = "init"
  /\ \E u \in UsedAgents :
       /\ history = u.history
       /\ selected_parts = u.selected_parts
       /\ page = u.page
  /\ current_step = 0
  /\ messages = <<>>
  /\ page_info = NoObs
  /\ response = NoResp
  /\ action = NoAction
  /\ ret = NoRet
  /\ events = <<>>
  /\ calls = [llm |-> 0, exec |-> 0, browser |-> 0]
  /\ last_call = NoCall
  /\ appended = <<>>
  /\ ParseIdle
  /\ ClickIdle
  /\ DomIdle
  /\ ExtIdle

SpecRerun == InitRerun /\ [][Next]_vars

\* the positions in which a run has ended
Terminal == {"returned", "raised"}

Last(h) == h[Len(h)]

(* ------------- messages received while a task's loop runs ------------- *)

\* the most messages received during one run
MaxMessages == 1

\* the types websocket_endpoint tells apart in a message while a task
\* runs: the two it answers and any type it has no branch for
MessageTypes == {"stop_task", "get_status", "other"}

\* what the endpoint sends back, with the agent's current_step at that
\* moment: stop_task is answered with task_stopped, get_status with the
\* status, any other type with nothing
Reply(msg_type, step) ==
  CASE msg_type = "stop_task" -> Event("task_stopped", step)
    [] msg_type = "get_status" -> Event("status", step)
    [] OTHER -> Event("none", 0)

\* a handler of stop_task that ends the loop
ReceiveMessage_Cancels(msg_type) ==
  /\ pc \notin Terminal
  /\ Len(received) < MaxMessages
  /\ received' = Append(received, [type |-> msg_type,
                                    reply |-> Reply(msg_type, current_step)])
  /\ pc' = IF msg_type = "stop_task" THEN "returned" ELSE pc
  /\ UNCHANGED <<mode, current_step, history, messages, selected_parts,
                 page, page_info, response, action, calls, last_call, ret,
                 events, appended>>
  /\ UNCHANGED <<parse_vars, click_vars, dom_vars, loc_vars, fmt_vars>>

\* one pass of the receive loop of websocket_endpoint while the loop of
\* the task created by start_task runs: the agent is registered in
\* active_agents, the reply goes out on the socket and the agent is only
\* read
ReceiveMessage(msg_type) ==
  /\ pc \notin Terminal
  /\ Len(received) < MaxMessages
  /\ received' = Append(received, [type |-> msg_type,
                                    reply |-> Reply(msg_type, current_step)])
  /\ UNCHANGED loop_vars
  /\ UNCHANGED <<parse_vars, click_vars, dom_vars, loc_vars, fmt_vars>>

Receive == \E msg_type \in MessageTypes : ReceiveMessage(msg_type)

InitStop ==
  /\ mode = "ws"
  /\ pc = "init"
  /\ Constructed
  /\ ParseIdle
  /\ ClickIdle
  /\ DomIdle
  /\ ExtIdle

\* the steps of run_agent_with_updates
RunWithUpdates ==
  \/ StartRaises
  \/ Start
  \/ StepBegin
  \/ CallLLM
  \/ CallLLMRaises
  \/ ParseNothing
  \/ ParseRaises
  \/ ParseCommand
  \/ ExecRaises
  \/ ExecDone
  \/ ExecFailed
  \/ ExecSucceeded
  \/ AfterLoop

NextStop == RunWithUpdates \/ Receive

SpecStop == InitStop /\ [][NextStop]_vars

(* -------------------- Browser.format_elements_for_llm ------------------ *)

\* len() of the texts the function is made of: the header line, the line
\* of dashes and the text returned for an empty list
HeaderLength == 33
DashLength == 50
EmptyLength == 12

\* len(str(n)) for the numbers that occur
Digits(n) == IF n < 10 THEN 1 ELSE IF n < 100 THEN 2 ELSE 3

\* a descriptor as get_pruned_dom builds it, its texts given by their
\* lengths: no type and no href, a text of length 0 is absent
Descriptor(idx, tag, txt, sel) == [idx |-> idx, tag |-> tag, text |-> txt, selector |-> sel]

\* len(" ".join(parts)) for one descriptor: [idx], <tag>, the quoted text
\* when there is one, and the bar followed by the selector
LineLength(el) ==
  (2 + Digits(el.idx)) + 1 + (2 + el.tag)
    + (IF el.text > 0 THEN 1 + (2 + el.text) ELSE 0)
    + 1 + (2 + el.selector)

\* len of the line that counts the descriptors not shown
CountLineLength(n) == 14 + Digits(n)

\* the loop over elements from the k-th on, joined the length of
\* "\n".join(lines) so far: the line is appended, then the length is
\* compared with max_chars, and on excess the count line is appended too
RECURSIVE Render(_, _, _, _)
Render(els, k, joined, limit) ==
  IF k > Len(els)
  THEN [called |-> TRUE, length |-> joined, rendered |-> Len(els), omitted |-> -1]
  ELSE LET with == joined + 1 + LineLength(els[k])
           left == Len(els) - els[k].idx - 1
       IN IF with > limit
          THEN [called |-> TRUE, length |-> with + 1 + CountLineLength(left),
                rendered |-> k, omitted |-> left]
          ELSE Render(els, k + 1, with, limit)

\* what the function returns: the length of the text, the number of
\* descriptors rendered and the number its last line gives, -1 when it has
\* no such line
format_elements_for_llm(els, limit) ==
  IF els = <<>>
  THEN [called |-> TRUE, length |-> EmptyLength, rendered |-> 0, omitted |-> -1]
  ELSE Render(els, 1, HeaderLength + 1 + DashLength, limit)

\* the lists of a snapshot: up to MaxNodes buttons with or without a text of
\* 40 characters, idx their position counted from 0
ElementLists ==
  UNION {{[i \in 1..n |-> Descriptor(i - 1, 6, t[i], 3)] : t \in [1..n -> {0, 40}]} :
           n \in 0..MaxNodes}

\* the values of max_chars: below the header, around one and two lines,
\* and the default
MaxChars == {50, 150, 200, 3000}

InitFormat ==
  /\ mode = "run"
  /\ pc = "format"
  /\ Constructed
  /\ ParseIdle
  /\ ClickIdle
  /\ DomIdle
  /\ LocatorsIdle
  /\ EndpointIdle
  /\ fmt_elements \in ElementLists
  /\ max_chars \in MaxChars
  /\ formatted = NotFormatted

Format ==
  /\ ~formatted.called
  /\ formatted' = format_elements_for_llm(fmt_elements, max_chars)
  /\ UNCHANGED <<loop_vars, parse_vars, click_vars, dom_vars, loc_vars, ws_vars,
                 fmt_elements, max_chars>>

SpecFormat == InitFormat /\ [][Format]_vars

TypeOK ==
  /\ pc \in {"init", "tick", "llm", "parse", "exec", "feedback", "after_loop",
             "returned", "raised"}
  /\ current_step \in 0..MaxSteps
  /\ Len(history) <= current_step

(* ------------------------------ claims --------------------------------- *)

\* C1: when the parsed command is the finish command, its record for the
\* current step gets a result with is_done, the loop is left in that very
\* step, and from then on no model call, no tool execution and no
\* conversation append happens, whatever budget remains.
C1_FinishEndsRun ==
  [][ /\ (pc = "parse" /\ ParseAction(response).kind = "action"
            /\ ParseAction(response).action.action = Str("done"))
         => (pc' = "exec" /\ action'.action = Str("done"))
      /\ (pc = "exec" /\ action.action = Str("done"))
         => /\ pc' = "after_loop"
            /\ history' # <<>>
            /\ Last(history').step = current_step
            /\ Last(history').action = action
            /\ Last(history').result.present
            /\ Last(history').result.is_done
            /\ calls'.llm = calls.llm
            /\ calls'.exec = calls.exec + 1
            /\ last_call'.name = Str("done")
            /\ messages' = messages
      /\ (pc = "after_loop")
         => /\ pc' = "returned"
            /\ calls' = calls
            /\ messages' = messages
            /\ history' = history
            /\ current_step' = current_step
    ]_vars

\* C1 witness: a run has ended on a finish command with budget left
C1_Witness ==
  /\ pc = "returned"
  /\ mode = "run"
  /\ ret.success
  /\ history # <<>>
  /\ Last(history).result.is_done
  /\ current_step < MaxSteps

\* C2: every run ends; the model is invoked at most max_steps times, once
\* per tick (a tick counts whether or not its response parses); and when
\* the budget runs out without a finish command the run returns the
\* transcript as it stands.
C2_BoundedRun ==
  /\ [](calls.llm <= MaxSteps)
  /\ [](calls.llm = IF pc = "llm" THEN current_step - 1 ELSE current_step)
  /\ [][pc = "after_loop" => history' = history]_vars
  /\ []((mode = "run" /\ pc = "returned" /\ ret.success)
          => /\ ret.history = history
             /\ (history = <<>> \/ ~Last(history).result.is_done)
                  => current_step = MaxSteps)
  /\ <>(pc \in Terminal)

\* C2 witness: the budget ran out on a tick whose response did not parse
C2_Witness ==
  /\ pc = "returned"
  /\ mode = "run"
  /\ ret.success
  /\ current_step = MaxSteps
  /\ calls.llm = MaxSteps
  /\ Len(history) < MaxSteps
  /\ messages # <<>>
  /\ Last(messages).kind = "format"

\* C3 (as claimed): Agent.run returns a failure only when the model client
\* or the browser driver raised.
C3_FailsOnlyOnCollaborators ==
  (mode = "run" /\ ret.returned /\ ~ret.success) => ret.error \in {"llm", "browser"}

\* C4: a failed return of Agent.run carries the error and the transcript
\* with every record that was appended, in order.
C4_FailureKeepsTranscript ==
  (mode = "run" /\ ret.returned /\ ~ret.success)
    => /\ ret.error # ""
       /\ Len(ret.history) = Len(appended)
       /\ \A i \in 1..Len(appended) :
            /\ ret.history[i].step = appended[i].step
            /\ ret.history[i].action = appended[i].action

\* C4 witness: Tools.execute raised in step 2; the record of step 1 and
\* the record of step 2, still without a result, are both returned
C4_Witness ==
  /\ mode = "run"
  /\ ret.returned
  /\ ~ret.success
  /\ current_step = 2
  /\ Len(ret.history) = 2
  /\ ret.history[1].result.present
  /\ ~ret.history[2].result.present

\* a non-finish command of step k has just come back as a failure
FailedAt(k) ==
  /\ pc = "tick"
  /\ current_step = k
  /\ history # <<>>
  /\ Last(history).step = k
  /\ Last(history).result.present
  /\ ~Last(history).result.success

\* C5: a non-finish command that fails at step k < max_steps leaves a
\* record for step k with success=false, appends the response and an
\* error-feedback user message, keeps the page, the tracker and the earlier
\* records as they are, and step k+1 runs: the model is invoked again.
C5_FailedStepContinues ==
  /\ [][ (/\ pc = "exec"
          /\ pc' # "returned"
          /\ current_step < MaxSteps
          /\ history' # <<>>
          /\ Last(history').result.present
          /\ ~Last(history').result.success)
         => /\ Last(history').step = current_step
            /\ Last(history').action = action
            /\ messages' = messages \o
                 <<AssistantMsg(response),
                   FailedMsg(current_step, Last(history').result.error)>>
            /\ pc' = "tick"
            /\ selected_parts' = selected_parts
            /\ page' >= page
            /\ SubSeq(history', 1, Len(history') - 1)
                 = IF mode = "run" THEN SubSeq(history, 1, Len(history) - 1)
                   ELSE history
       ]_vars
  /\ \A k \in 1..(MaxSteps - 1) :
       FailedAt(k) ~> (current_step = k + 1 /\ calls.llm = k + 1)

\* C5 witness: step 1 failed and the model has been invoked for step 2
C5_Witness ==
  /\ pc = "parse"
  /\ current_step = 2
  /\ calls.llm = 2
  /\ Len(history) = 1
  /\ history[1].step = 1
  /\ history[1].result.present
  /\ ~history[1].result.success
  /\ Last(messages).kind = "failed"

\* C6 (as claimed): Tools.execute called with a name outside the registered
\* names returns a failure that is not terminal and names the tool, without
\* raising and without touching the browser.
C6_UnknownToolReported ==
  (last_call.made /\ ~(last_call.name.t = "str" /\ last_call.name.v \in Registered))
    => /\ ~last_call.raised
       /\ last_call.res.present
       /\ ~last_call.res.success
       /\ ~last_call.res.is_done
       /\ last_call.res.error = Err("unknown_tool", last_call.name.v)
       /\ ~last_call.touched

\* C7: when the response does not parse into a command, no tool is called
\* and the transcript and the tracker stay as they are; the conversation
\* gets the response and one corrective user message, and the loop goes on
\* to the next step.
C7_ParseFailureFrame ==
  [][ (pc = "parse" /\ ParseAction(response).kind = "null")
      => /\ history' = history
         /\ selected_parts' = selected_parts
         /\ calls' = calls
         /\ last_call' = last_call
         /\ page' = page
         /\ messages' = messages \o <<AssistantMsg(response), FormatMsg>>
         /\ pc' = IF current_step < MaxSteps THEN "tick" ELSE "after_loop"
         /\ UNCHANGED <<mode, current_step, ret, events, appended>>
    ]_vars

\* C7 witness: step 1 recorded a command, the response of step 2 did not
\* parse and the corrective message is the last of the conversation
C7_Witness ==
  /\ pc = "after_loop"
  /\ current_step = 2
  /\ Len(history) = 1
  /\ calls.exec = 1
  /\ Last(messages).kind = "format"
  /\ messages[Len(messages) - 1].role = "assistant"

\* C8 (as claimed): in the feedback message of a successful step, the page
\* line and the element list were both observed after the command of that
\* step had executed.
C8_FeedbackObservedAfter ==
  \A i \in 1..Len(messages) :
    messages[i].kind = "success"
      => /\ messages[i].page_info.step = messages[i].step
         /\ messages[i].page_info.phase = "post"
         /\ mode = "run" => /\ messages[i].state.step = messages[i].step
                            /\ messages[i].state.phase = "post"

C10_AppendsCompleteRecords ==
  [][ \/ history' = history
      \/ /\ Len(history') = Len(history) + 1
         /\ SubSeq(history', 1, Len(history)) = history
         /\ Last(history').result.present
    ]_vars

\* C10 (amended): the transcript changes only by appending a record for
\* the current step or by giving the last record, which has none yet, its
\* result within the step that appended it; the step, action, page info
\* and response of a record, and every earlier record, never change.
C10_RecordsFilledOnce ==
  [][ \/ history' = history
      \/ /\ Len(history') = Len(history) + 1
         /\ SubSeq(history', 1, Len(history)) = history
         /\ Last(history').step = current_step
      \/ /\ Len(history') = Len(history)
         /\ history # <<>>
         /\ ~Last(history).result.present
         /\ Last(history').result.present
         /\ Last(history).step = current_step
         /\ history' = [history EXCEPT ![Len(history)].result = Last(history').result]
    ]_vars

\* C10 witness: Agent.run is awaiting the tool of step 2; the record of
\* step 1 has its result, the record of step 2 has none yet
C10_Witness ==
  /\ mode = "run"
  /\ pc = "exec"
  /\ Len(history) = 2
  /\ history[1].result.present
  /\ ~history[2].result.present

FencesOf(s) == {i \in 1..Len(s) : s[i] = Fence}
NthFence(s, k) ==
  CHOOSE i \in FencesOf(s) : Cardinality({j \in FencesOf(s) : j <= i}) = k

\* the fenced blocks of a text, as written: the odd fences open a block and
\* the next fence closes it
Blocks(s) ==
  {<<NthFence(s, 2 * k - 1), NthFence(s, 2 * k)>> :
     k \in 1..(Cardinality(FencesOf(s)) \div 2)}

\* the tag on the opening fence of a block ("" when there is none) and the
\* object the block holds, white space left out
BlockTag(s, b) ==
  IF s[b[1] + 1] \in {Ws, "{", Fence} THEN "" ELSE s[b[1] + 1]
BlockObject(s, b) ==
  StripWs(SubSeq(s, IF BlockTag(s, b) = "" THEN b[1] + 1 ELSE b[1] + 2, b[2] - 1))

\* the finish command synthesized from a text
ImplicitDone == Parsed([action |-> Str("done"), params |-> ObjResult(Str("response"))])

\* the command of a decoded object
CmdOf(json) == [action |-> json.action, params |-> json.params]

\* C12 as stated: when the text has a fenced block whose object decodes
\* and has an action field, that object is the one the parse settles on
\* whatever else the text holds; otherwise the brace-scanned object is, when
\* it decodes with an action field; otherwise the result is the synthesized
\* finish command or null.  (What the sanity check then does with a finish
\* command is the subject of C15 and is left open here.)
C12_FixedPriority ==
  (called = "_parse_action") =>
    LET valid == {b \in Blocks(reply) : Decoded(BlockObject(reply, b)).has_action}
        inline == StripWs(InlineObject(reply))
    IN IF valid # {}
       THEN /\ parsed.kind \in {"action", "raise"}
            /\ selected.method # 0
            /\ \E b \in valid : selected.src = BlockObject(reply, b)
       ELSE IF Decoded(inline).has_action
       THEN /\ parsed.kind \in {"action", "raise"}
            /\ selected.method = 2
            /\ selected.src = inline
       ELSE selected.method = 0 /\ parsed \in {ImplicitDone, ParseNull}

\* C12 (amended): the fence pattern is tried once, on its first match.  When
\* the first fenced block of the text, untagged or tagged json, holds an
\* object that decodes and has an action field, that object is the one
\* selected, whatever other objects and completion phrases the text has.
\* When the first match of the pattern yields no command, the brace-scanned
\* object is selected if it decodes with an action field.  A finish command
\* is synthesized only when both attempts yield nothing.  A selected object
\* is handed to the sanity check, whose outcome is the outcome of the parse.
C12_FirstMatchPriority ==
  (called = "_parse_action") =>
    LET first == <<NthFence(reply, 1), NthFence(reply, 2)>>
        m1 == StripWs(CodeBlockMatch(reply))
        inline == StripWs(InlineObject(reply))
    IN /\ (/\ Blocks(reply) # {}
           /\ BlockTag(reply, first) \in {"", JsonTag}
           /\ Decoded(BlockObject(reply, first)).has_action)
          => (selected.method = 1 /\ selected.src = BlockObject(reply, first))
       /\ selected.method = 1 => (selected.src = m1 /\ Decoded(m1).has_action)
       /\ ~Decoded(m1).has_action =>
            IF Decoded(inline).has_action
            THEN selected.method = 2 /\ selected.src = inline
            ELSE selected.method = 0
       /\ selected.method = 0 =>
            parsed = (IF IsExplicitTaskCompletion(reply) THEN ImplicitDone ELSE ParseNull)
       /\ selected.method # 0 => parsed = ValidateDoneAction(CmdOf(selected.json))

\* the fenced object was selected although an inline command precedes the
\* block and the text has a strong completion phrase
C12_Witness ==
  /\ called = "_parse_action"
  /\ selected.method = 1
  /\ parsed.kind = "action"
  /\ FindMarker(reply) # 0
  /\ FindMarker(reply) < NthFence(reply, 1)
  /\ Decoded(StripWs(InlineObject(reply))).has_action
  /\ AnyIn(strong_completion_patterns, reply)

\* the first opening and the last closing brace of a text (0: none)
FirstOpen(s) ==
  IF \E i \in DOMAIN s : s[i] = "{" THEN MinOf({i \in DOMAIN s : s[i] = "{"}) ELSE 0
LastClose(s) ==
  IF \E i \in DOMAIN s : s[i] = "}" THEN MaxOf({i \in DOMAIN s : s[i] = "}"}) ELSE 0

\* what lies from the first opening to the last closing brace
Embedded(s) ==
  IF FirstOpen(s) = 0 \/ LastClose(s) < FirstOpen(s) THEN <<>>
  ELSE StripWs(SubSeq(s, FirstOpen(s), LastClose(s)))

\* a text without a fence that is brace-free prose, one well-formed object
\* with a top-level action field, and brace-free prose
OneObjectInProse(s) == FencesOf(s) = {} /\ Decoded(Embedded(s)).has_action

\* C13 as stated: for a text without a fence that is prose around one
\* well-formed object with a top-level action field, whatever the order of
\* its keys and with params possibly nested, the object _parse_action
\* settles on is exactly that object.  (What the sanity check then does with
\* a finish command is the subject of C15 and is left open here.)
C13_InlineObjectReturned ==
  (called = "_parse_action" /\ OneObjectInProse(reply)) =>
    /\ parsed.kind \in {"action", "raise"}
    /\ selected.method = 2
    /\ selected.src = Embedded(reply)

\* C13 (amended): for such a text the brace scan selects exactly that object
\* and hands it to the sanity check, provided the nearest opening brace
\* before the first "action" marker of the text is the object's own: the
\* prose before the object does not quote the word action and no nested
\* object opens before the marker
C13_InlineObjectSelected ==
  (/\ called = "_parse_action"
   /\ OneObjectInProse(reply)
   /\ RFindBrace(reply, FindMarker(reply)) = FirstOpen(reply)) =>
    /\ selected.method = 2
    /\ selected.src = Embedded(reply)
    /\ parsed = ValidateDoneAction(CmdOf(Decoded(Embedded(reply))))

\* a command with nested params, prose before it and after it, was
\* returned
C13_Witness ==
  /\ called = "_parse_action"
  /\ OneObjectInProse(reply)
  /\ FirstOpen(reply) > 1
  /\ LastClose(reply) < Len(reply)
  /\ Count(reply, "{", 1, Len(reply)) = 2
  /\ selected.method = 2
  /\ parsed = Parsed(CmdOf(Decoded(Embedded(reply))))
  /\ parsed.action.action = Str("navigate")

\* the text of the example: I will continue to the next step now
ContinueText == <<"word", "continue", "next step">>

\* C14: _parse_action returns null exactly when neither structural attempt
\* yields a decodable object with an action field and the completion
\* classifier rejects the text; what it returns otherwise is a decoded
\* object that has an action field or the synthesized finish command, never
\* a decoded object without an action field; the example text yields null
C14_NullExactlyWhenNothingFound ==
  (called = "_parse_action") =>
    LET m1 == StripWs(CodeBlockMatch(reply))
        m2 == StripWs(InlineObject(reply))
    IN /\ (parsed.kind = "null") <=>
            (/\ ~Decoded(m1).has_action
             /\ ~Decoded(m2).has_action
             /\ ~IsExplicitTaskCompletion(reply))
       /\ (parsed.kind = "action") =>
            \/ /\ selected.src \in {m1, m2}
               /\ Decodes(selected.src)
               /\ ValueAt(Members(selected.src, 2), Marker) # 0
               /\ parsed.action = CmdOf(Decoded(selected.src))
            \/ /\ selected.method = 0
               /\ parsed = ImplicitDone
       /\ (reply = ContinueText) => (parsed.kind = "null")

\* a text with a decoded object that has no action field, and no
\* completion phrase, came back as null
C14_Witness ==
  /\ called = "_parse_action"
  /\ parsed.kind = "null"
  /\ Decodes(StripWs(CodeBlockMatch(reply))) \/ Decodes(Embedded(reply))
  /\ ~Decoded(Embedded(reply)).has_action
  /\ FindMarker(reply) = 0
  /\ Len(reply) > 6

\* C15: for every decoded object with an action field, a finish command
\* without completion or result signal included, the sanity check returns
\* that same command: _parse_action neither drops, replaces nor fails on a
\* structurally parsed command
C15_SanityCheckReturnsCommand ==
  (called = "_parse_action" /\ selected.method # 0) =>
    parsed = Parsed(CmdOf(selected.json))

\* the tokens of a text
TokensOf(s) == {s[i] : i \in DOMAIN s}

\* C16: _is_explicit_task_completion(text) is true if and only if the text
\* (letter case aside) contains no exclusion pattern and contains a strong
\* completion pattern or both a weak completion word and a summary signal;
\* a text with an exclusion pattern, such as step one complete together
\* with continue, is never classified as finished, and a text with a
\* strong phrase, a summary and no exclusion pattern always is
C16_ExplicitCompletionRule ==
  (called = "_is_explicit_task_completion") =>
    LET strong == AnyIn(strong_completion_patterns, reply)
        weak == AnyIn(weak_completion_signals, reply)
        exclusion == AnyIn(exclusion_patterns, reply)
        summary == AnyIn(summary_signals, reply)
    IN /\ is_explicit <=> (~exclusion /\ (strong \/ (weak /\ summary)))
       /\ exclusion => ~is_explicit
       /\ {"yi wancheng di yi bu", "jixu"} \subseteq TokensOf(reply) => ~is_explicit
       /\ (strong /\ summary /\ ~exclusion) => is_explicit

\* a text with a strong phrase, step one complete and continue was
\* classified, and rejected
C16_Witness ==
  /\ called = "_is_explicit_task_completion"
  /\ TokensOf(reply) = {"Task Is Fully Complete", "yi wancheng di yi bu", "jixu"}
  /\ ~is_explicit

(* ------------------------- claims about click -------------------------- *)

\* the distinct strategies of the call, from the list as built
Distinct == {Strategies(selector, current_url)[i] : i \in DOMAIN Strategies(selector, current_url)}

\* C17: click raises its resolution error only after every strategy of the
\* de-duplicated list, each once and none of them clicking, and then the
\* scripted fallback have been attempted and have failed; the fallback is
\* attempted only after all list strategies have failed; the error names the
\* number of distinct strategies; after a click by a strategy or by the
\* fallback the call has returned normally
C17_RaisesAfterAllFailed ==
  /\ click_pc = "raised" =>
       /\ {tried[i] : i \in DOMAIN tried} = Distinct
       /\ Len(tried) = Cardinality(Distinct)
       /\ js_fallback = "failed"
       /\ clicks = 0
       /\ reported = Cardinality(Distinct)
  /\ js_fallback # "not tried" =>
       /\ {tried[i] : i \in DOMAIN tried} = Distinct
       /\ clicks = (IF js_fallback = "clicked" THEN 1 ELSE 0)
  /\ clicks > 0 => click_pc = "returned"
  /\ click_pc = "returned" => clicks > 0

\* the error was raised for a locator whose list had duplicates: more
\* strategies were built than the error names
C17_Witness ==
  /\ click_pc = "raised"
  /\ selector = "#add_cpu"
  /\ IsPcPartPicker(current_url)
  /\ reported < Len(Strategies(selector, current_url))
  /\ reported > 10

\* C18: the strategies are attempted one at a time, in list order; a click
\* ends the call at once: no strategy and no fallback is attempted after
\* it, so that one call clicks at most once
C18_ReturnsAtFirstClick ==
  [][ /\ tried' # tried =>
           /\ Len(tried) < Len(unique_strategies)
           /\ tried' = Append(tried, unique_strategies[Len(tried) + 1])
      /\ clicks' # clicks => (clicks' = 1 /\ click_pc' = "returned")
      /\ clicks > 0 => (tried' = tried /\ js_fallback' = js_fallback /\ clicks' = clicks)
      /\ click_pc = "returned" => click_pc' = "returned"
    ]_vars

\* the second or a later strategy clicked and the call returned with
\* strategies left that were never attempted
C18_Witness ==
  /\ click_pc = "returned"
  /\ clicks = 1
  /\ Len(tried) >= 2
  /\ Len(tried) < Len(unique_strategies)
  /\ js_fallback = "not tried"

(* --------------------- claims about get_pruned_dom --------------------- *)

\* the qualifying nodes of the page: the nodes some selector query returns
\* that pass every filter of the script
QualifyingNodes ==
  {n \in DOMAIN nodes : (\E i \in DOMAIN queried : queried[i] = n) /\ Qualifies(nodes[n])}

\* idx runs 0, 1, 2, ... down the list of descriptors
DenseIdx ==
  \A i \in DOMAIN dom_info.elements : dom_info.elements[i].idx = i - 1

\* the number of descriptors min(q, N) for q qualifying nodes
ExpectedCount == MinOf({Cardinality(QualifyingNodes), max_elements})

MustPrecede(f, e) ==
  \/ inViewport(f) /\ ~inViewport(e)
  \/ /\ inViewport(f) = inViewport(e)
     /\ \/ e.top - f.top > tolerance
        \/ Abs(e.top - f.top) <= tolerance /\ f.left < e.left

\* C20: in every snapshot an in-viewport element has a smaller index than a
\* near-viewport one, within a group an element more than 20 pixels above
\* another has the smaller index and elements within 20 pixels go left to
\* right, and the elements kept are the first max_elements of that order:
\* every qualifying node that must precede a kept element is kept itself,
\* at a smaller index
C20_ReadingOrder ==
  (dom_pc = "returned" /\ ~dom_info.error) =>
    \A i \in DOMAIN dom_info.elements :
      \A n \in QualifyingNodes :
        MustPrecede(nodes[n], nodes[dom_info.elements[i].el]) =>
          \E j \in 1..(i - 1) : dom_info.elements[j].el = n

(* ------------------ claims about the synthesized selectors ------------- *)

\* C21: for every descriptor of a snapshot, its selector queried again on
\* the unchanged document resolves to exactly the element the descriptor
\* was built from, whatever kind of selector it is; and a selector made
\* from an id or a data attribute is the first strategy click tries
C21_LocatorsRoundTrip ==
  loc_pc = "requeried" =>
    \A i \in DOMAIN descriptors :
      /\ requeried[i] = descriptors[i].el
      /\ descriptors[i].selector.kind \in {"id", "data-testid", "data-id"} =>
           \A url \in Urls :
             UniqueStrategies(LocatorText(descriptors[i].selector), url)[1]
               = Strategy("", LocatorText(descriptors[i].selector))

(* ---------------------- claims about repeated runs --------------------- *)

\* C22: every call of Agent.run starts with an empty transcript and an
\* empty tracker, so at any moment of a run the transcript holds exactly
\* the records appended in this run, the returned history is that
\* transcript, and before the first step the tracker is empty
C22_TranscriptPerRun ==
  (mode = "run" /\ pc # "init") =>
    /\ Len(history) = Len(appended)
    /\ ret.returned => Len(ret.history) = Len(appended)
    /\ current_step = 0 => DOMAIN selected_parts = {}

(* ---------------------------- C23 ---------------------------- *)

IsRawStrategy(s) == s = Raw(selector)

IsTextStrategy(s) ==
  /\ IsTextLike(selector)
  /\ s[2] = selector
  /\ s[1] \in {"button:has-text", "a:has-text", "text=", "[role=button]:has-text"}

IsHostStrategy(s) ==
  /\ IsPcPartPicker(current_url)
  /\ \E i \in DOMAIN (PartStrategies(selector) \o AddStrategies(selector)) :
       (PartStrategies(selector) \o AddStrategies(selector))[i] = s

IsIdStrategy(s) ==
  /\ Prefix(selector) = "#"
  /\ s[2] = IdKeyword(selector)
  /\ s[1] \in {"[id*= i]", "[class*= i]", "button:has-text", "a:has-text"}

IsXPathStrategy(s) ==
  /\ Prefix(selector) \in {"//", "xpath="}
  /\ s = Strategy("xpath=", XPathOf(selector))

IsWordStrategy(s) ==
  /\ IsTextLike(selector)
  /\ s[1] = "*:has-text"
  /\ \E i \in DOMAIN Words(selector) : Words(selector)[i] = s[2]

\* the place of a strategy in the described order: the raw locator, the
\* text matches, the host's tables, the id keyword, the XPath form, the
\* words; a strategy of two kinds has the place of the earlier one
DescribedPlace(s) ==
  CASE IsRawStrategy(s) -> 1
    [] IsTextStrategy(s) -> 2
    [] IsHostStrategy(s) -> 3
    [] IsIdStrategy(s) -> 4
    [] IsXPathStrategy(s) -> 5
    [] IsWordStrategy(s) -> 6
    [] OTHER -> 7

\* the order of the list as it is built: the XPath form is put in front
PlaceInList(s) ==
  CASE IsXPathStrategy(s) -> 0
    [] OTHER -> DescribedPlace(s)

StampedWith(i) == {n \in DOMAIN stamps : stamps[n] = i}

\* C25: after any sequence of compactions on a page, for each index i of
\* the latest snapshot the selector [data-agent-idx="i"] matches exactly
\* one node, the node the snapshot describes at index i
C25_StampsAreUnique ==
  (dom_pc = "returned" /\ ~dom_info.error) =>
    \A k \in DOMAIN dom_info.elements :
      StampedWith(dom_info.elements[k].idx) = {dom_info.elements[k].el}

(* ---------------------------- C26 ---------------------------- *)

\* C26: for every non-empty list the text returned has at most max_chars
\* characters, and when descriptors are left out its last line gives their
\* number, the length of the list less the number rendered
C26_WithinMaxChars ==
  (formatted.called /\ fmt_elements # <<>>) =>
    /\ formatted.length <= max_chars
    /\ formatted.rendered < Len(fmt_elements) =>
         formatted.omitted = Len(fmt_elements) - formatted.rendered

(* ---------------------------- C27 ---------------------------- *)

\* C27: the tracker only grows: a step removes no recorded part type and
\* changes neither the name nor the price recorded for one, and the
\* tracker changes only in a step whose command is not the finish command
\* and whose execution returned a successful result; steps that fail, that
\* yield no command or that finish leave it as it was
C27_TrackerOnlyGrows ==
  [][/\ DOMAIN selected_parts \subseteq DOMAIN selected_parts'
     /\ \A p \in DOMAIN selected_parts : selected_parts'[p] = selected_parts[p]
     /\ selected_parts' # selected_parts =>
          /\ pc = "exec"
          /\ action.action # Str("done")
          /\ last_call'.made
          /\ ~last_call'.raised
          /\ last_call'.res.success]_vars

\* a part type was recorded in the first step; the second step read a
\* text that names it again with another price, and the recorded price is
\* still the first one
C27_Witness ==
  /\ "CPU" \in DOMAIN selected_parts
  /\ Len(history) = 2
  /\ history[2].result.present
  /\ history[2].result.success
  /\ response.kw = {"CPU"}
  /\ response.sel
  /\ history[2].result.content.price # selected_parts["CPU"].price

(* ---------------------------- C28 ---------------------------- *)

\* the assistant messages of the conversation
AssistantMessages == SelectSeq(messages, LAMBDA m : m.role = "assistant")

\* C28: whenever Agent.run calls the model the conversation is one system
\* message followed by user and assistant messages in strict alternation,
\* the last one a user message, with one assistant message for each step
\* taken before; a step of the run only appends to the conversation, and
\* an assistant message it appends is the response of that step, appended
\* once
C28_ConversationAlternates ==
  /\ []((mode = "run" /\ pc = "llm") =>
          /\ Len(messages) >= 2
          /\ messages[1].role = "system"
          /\ \A i \in 2..Len(messages) :
               messages[i].role = IF i % 2 = 0 THEN "user" ELSE "assistant"
          /\ messages[Len(messages)].role = "user"
          /\ Len(AssistantMessages) = current_step - 1)
  /\ [][(mode = "run" /\ messages # <<>>) =>
          /\ Len(messages') >= Len(messages)
          /\ SubSeq(messages', 1, Len(messages)) = messages
          /\ \A i \in (Len(messages) + 1)..Len(messages') :
               messages'[i].role = "assistant" =>
                 /\ messages'[i] = AssistantMsg(response)
                 /\ \A j \in (Len(messages) + 1)..Len(messages') :
                      messages'[j].role = "assistant" => j = i]_vars

\* the model is called for the second step after a first step that
\* succeeded: system, task, response, feedback
C28_Witness ==
  /\ mode = "run"
  /\ pc = "llm"
  /\ current_step = 2
  /\ Len(messages) = 4
  /\ messages[3] = AssistantMsg(response)
  /\ messages[4].kind = "success"

(* ---------------------------- C29 ---------------------------- *)

\* the terminal events sent during the run
TerminalEvents ==
  SelectSeq(events, LAMBDA e : e.type \in {"task_complete", "task_max_steps", "error"})

HasEvent(type) == \E i \in DOMAIN events : events[i].type = type

\* C29: a run of run_agent_with_updates emits exactly one terminal event:
\* never more than one, one when it has ended, and never task_max_steps
\* in a run that emitted task_complete
C29_OneTerminalEvent ==
  mode = "ws" =>
    /\ Len(TerminalEvents) <= 1
    /\ pc \in Terminal => Len(TerminalEvents) = 1
    /\ ~(HasEvent("task_complete") /\ HasEvent("task_max_steps"))

(* ---------------------------- C30 ---------------------------- *)

\* C30: the click tool reports success=false only when no click was
\* performed: a step that executes click and gets a result with
\* success=false has left the page as it was
C30_FailureMeansNoClick ==
  [][(/\ pc = "exec"
      /\ action.action = Str("click")
      /\ last_call'.made
      /\ ~last_call'.raised
      /\ last_call'.res.present
      /\ ~last_call'.res.success) => page' = page]_vars

====
